---------------------------- MODULE Spec2Model ----------------------------
(***************************************************************************)
(* Verification model of the isolator expression quantification sampler    *)
(* (src/src/sampler.cpp, src/src/fragment_model.cpp): the sparse weight    *)
(* matrix, the component construction in Sampler::Sampler, and the round   *)
(* structure of Sampler::run with its worker threads.                      *)
(*                                                                         *)
(* C arrays are modelled as TLA+ sequences: element k of a C array is      *)
(* element k+1 of the sequence.  Arrays indexed by row / component /       *)
(* transcript are functions over 0..n-1.                                   *)
(***************************************************************************)
EXTENDS Integers, Sequences, FiniteSets, TLC

(***************************************************************************)
(* Bounds of the model.                                                    *)
(***************************************************************************)
NRow == 3          \* number of transcripts (rows of the weight matrix)
MaxCol == 2        \* largest fragment index handed to push
MaxPush == 3       \* number of push calls explored
MaxWeight == 2     \* weights are drawn from 1..MaxWeight
NumThreads == 2    \* constants::num_threads, the size of every thread pool
QueueCapacity == 2 \* the number of items a Queue holds before push blocks
MaxRounds == 2     \* num_samples, the number of rounds of Sampler::run
Unit == 8          \* a double holds multiples of 1/Unit: the value 1.0 is Unit
MantBits == 1      \* a float keeps MantBits significant bits of such a value
ZGrid == 4         \* a uniform variate is one of 0/ZGrid .. ZGrid/ZGrid
MaxGamma == 2      \* a gamma variate is one of 1 .. MaxGamma
MaxFloat == 1024  \* the largest magnitude converted to float, in units
MaxReads == 3      \* alignments read from the stream
MaxTid == 1        \* the largest reference id of an alignment
MaxPos == 2        \* the largest position of an alignment
MaxFrag == 2       \* the fragments of a locus are 0 .. MaxFrag
MaxLocusReads == 2 \* the reads of a locus
MaxSeen == 2       \* a fragment is seen 1 .. MaxSeen times in its locus
MaxDrift == 2      \* the tmix of a component sum to 1 within MaxDrift units
MaxReadSet == 3    \* the reads of the locus of one process_locus call
MaxBiasCalls == 2  \* calls of transcript_sequence_bias by one thread
MaxRowLen == 8     \* entries of the row that sortrow sorts
SearchGrid == 16   \* z is one of 0/SearchGrid .. SearchGrid/SearchGrid in the search
MaxMate1 == 65537  \* mate-1 alignments of the read that is counted
MaxMate2 == 3      \* mate-2 alignments of the read that is counted
MaxAlignments == 3 \* alignments of the multiread that is resolved
MaxBlocks == 3     \* the multiread queue gets up to MaxBlocks blocks in a round
MaxShuffle == 3    \* every permutation of an array of up to MaxShuffle elements

(***************************************************************************)
(* Program constants.                                                      *)
(***************************************************************************)
insert_sort_cutoff == 7
MultireadBlockSize == 100    \* multireads per MultireadBlock
ComponentBatchSize == 10     \* components per ComponentSubset
INT_MAX == 2147483647
CounterBits == 16            \* AlnCountTrie: bits of the count of one mate

Rows == 0 .. (NRow - 1)
Cols == 0 .. MaxCol
Weights == 1 .. MaxWeight

VARIABLES
    pc,              \* position of the main thread
    weight_matrix,   \* WeightMatrix: nrow, ncol, rowlens, reserved, rows, idxs, compacted
    idxmap,          \* the column map returned by compact() / built for reorder_columns
    pushed,          \* history: the push calls made so far, <<row, col, w>>
    entry,           \* WeightMatrixIterator: i, k and the current entry
    visited,         \* history: the entries the iteration has dereferenced
    ds,              \* Sampler::Sampler: the disjoint-set array, later the labels
    num_components,
    transcript_component,
    component_num_transcripts,
    component_transcripts,
    nz_frag_counts,  \* Sampler::Sampler: the (fragment index, count) pairs of process_locus
    observed,        \* history: how often each fragment was seen, and its column now
    component_frag,
    frag_counts,
    frag_probs,
    frag_probs_prop,
    input,           \* the transcript loci, their reads and the number of model intervals
    q,               \* the work queue of FragmentModel::estimate, then of Sampler::Sampler
    threads,         \* the threads of FragmentModel::estimate, then of Sampler::Sampler
    loop,            \* loop variables of the main thread: i, j0, r, c
    scan,            \* sam_scan: the alignments read, last_tid, last_pos, j, j0
    indexing,        \* read_indexer and the frag_idx, excluded_frags of each process_locus
    locus,           \* one process_locus call: its reads, maps, loops and bias arrays
    search,          \* one transcript_slice_sample_search call: its locals
    multiread_frags,
    num_multireads,
    multiread_alignments,
    tmix,
    cmix,
    frag_count_sums,
    cs,              \* Sampler::run: the component order
    sample_num,
    component_queue,
    mcmc_threads,
    multiread_queue,
    multiread_threads,
    hist             \* history: what was pushed, popped and updated in the current phase

wmvars == <<weight_matrix, idxmap, pushed, entry, visited>>

compvars == <<ds, num_components, transcript_component,
              component_num_transcripts, component_transcripts>>

fragvars == <<nz_frag_counts, observed, component_frag, frag_counts,
              frag_probs, frag_probs_prop>>

poolvars == <<input, scan, indexing, locus, search, q, threads, loop>>

multireadvars == <<multiread_frags, num_multireads, multiread_alignments>>

mixvars == <<tmix, cmix, frag_count_sums>>

roundvars == <<cs, sample_num, component_queue, mcmc_threads,
               multiread_queue, multiread_threads>>

runvars == <<poolvars, multireadvars, mixvars, roundvars, hist>>

(***************************************************************************)
(* Helpers on sequences used as C arrays.                                  *)
(***************************************************************************)
Range(s) == {s[k] : k \in DOMAIN s}

Swap(s, a, b) == [s EXCEPT ![a + 1] = s[b + 1], ![b + 1] = s[a + 1]]

Max2(a, b) == IF a >= b THEN a ELSE b

Min2(a, b) == IF a <= b THEN a ELSE b

RECURSIVE SumSeq(_)
SumSeq(s) == IF s = <<>> THEN 0 ELSE Head(s) + SumSeq(Tail(s))

BagOfSeq(s) == [x \in Range(s) |-> Cardinality({k \in DOMAIN s : s[k] = x})]

(***************************************************************************)
(* WeightMatrix::WeightMatrix                                              *)
(***************************************************************************)
NewWeightMatrix(n) ==
    [nrow      |-> n,
     ncol      |-> 0,
     rowlens   |-> [i \in 0 .. (n - 1) |-> 0],
     reserved  |-> [i \in 0 .. (n - 1) |-> 0],
     rows      |-> [i \in 0 .. (n - 1) |-> <<>>],
     idxs      |-> [i \in 0 .. (n - 1) |-> <<>>],
     compacted |-> FALSE]

(***************************************************************************)
(* WeightMatrix::push                                                      *)
(***************************************************************************)
NewSize(res) == IF res = 0 THEN 1 ELSE IF res < 100 THEN 2 * res ELSE res + 100

push(wm, i, j, w) ==
    [wm EXCEPT
        !.reserved[i] = IF wm.rowlens[i] >= wm.reserved[i]
                           THEN NewSize(wm.reserved[i]) ELSE @,
        !.idxs[i]     = Append(@, j),
        !.rows[i]     = Append(@, w),
        !.rowlens[i]  = @ + 1]

(***************************************************************************)
(* WeightMatrix::median_of_three                                           *)
(***************************************************************************)
median_of_three(idx, a, b, c) ==
    LET abc0 == <<a, b, c>>
        abc1 == IF idx[abc0[1] + 1] < idx[abc0[2] + 1]
                   THEN <<abc0[2], abc0[1], abc0[3]>> ELSE abc0
        abc2 == IF idx[abc1[2] + 1] < idx[abc1[3] + 1]
                   THEN <<abc1[1], abc1[3], abc1[2]>> ELSE abc1
        abc3 == IF idx[abc2[1] + 1] < idx[abc2[2] + 1]
                   THEN <<abc2[2], abc2[1], abc2[3]>> ELSE abc2
    IN  abc3[2]

(***************************************************************************)
(* WeightMatrix::sortrow.  ir = <<idx, row>> are the two parallel arrays   *)
(* of one row.                                                             *)
(***************************************************************************)
RECURSIVE MinPos(_, _, _, _)
MinPos(idx, a, v, minpos) ==
    IF a >= v THEN minpos
    ELSE IF idx[a + 1] < idx[minpos + 1]
         THEN MinPos(idx, a + 1, v, a)
         ELSE MinPos(idx, a + 1, v, minpos)

RECURSIVE SelectionSort(_, _, _)
SelectionSort(ir, u, v) ==
    IF u < v - 1
       THEN LET minpos == MinPos(ir[1], u + 1, v, u)
            IN  SelectionSort(<<Swap(ir[1], u, minpos), Swap(ir[2], u, minpos)>>,
                              u + 1, v)
       ELSE ir

\* the partition loop "for (a = b = u; b < v - 1; ++b)"; returns <<idx, row, a>>
RECURSIVE PartitionLoop(_, _, _, _, _)
PartitionLoop(ir, a, b, v, pval) ==
    IF b < v - 1
       THEN IF ir[1][b + 1] <= pval
               THEN PartitionLoop(<<Swap(ir[1], a, b), Swap(ir[2], a, b)>>,
                                  a + 1, b + 1, v, pval)
               ELSE PartitionLoop(ir, a, b + 1, v, pval)
       ELSE <<ir[1], ir[2], a>>

RECURSIVE SortLoop(_, _)
SortLoop(s, ir) ==
    IF s = <<>> THEN ir
    ELSE LET r    == s[Len(s)]
             rest == SubSeq(s, 1, Len(s) - 1)
             u    == r[1]
             v    == r[2]
         IN  IF u = v THEN SortLoop(rest, ir)
             ELSE IF v - u < insert_sort_cutoff
                  THEN SortLoop(rest, SelectionSort(ir, u, v))
             ELSE LET p    == median_of_three(ir[1], u, u + ((v - u) \div 2), v - 1)
                      pval == ir[1][p + 1]
                      ir1  == <<Swap(ir[1], p, v - 1), Swap(ir[2], p, v - 1)>>
                      part == PartitionLoop(ir1, u, u, v, pval)
                      a    == part[3]
                      ir2  == <<Swap(part[1], a, v - 1), Swap(part[2], a, v - 1)>>
                  IN  SortLoop(rest \o <<(<<u, a>>), (<<a + 1, v>>)>>, ir2)

\* variant: rows longer than the cutoff are left as they are
SortedRowBelowCutoff(idx, row) ==
    IF Len(idx) = 0 \/ Len(idx) >= insert_sort_cutoff THEN <<idx, row>>
    ELSE SortLoop(<< <<0, Len(idx)>> >>, <<idx, row>>)

SortedRow(idx, row) ==
    IF Len(idx) = 0 THEN <<idx, row>>
    ELSE SortLoop(<< <<0, Len(idx)>> >>, <<idx, row>>)

sortrow(wm, i) ==
    LET ir == SortedRow(wm.idxs[i], wm.rows[i])
    IN  [wm EXCEPT !.idxs[i] = ir[1], !.rows[i] = ir[2]]

RECURSIVE SortRowsFrom(_, _)
SortRowsFrom(wm, i) ==
    IF i >= wm.nrow THEN wm ELSE SortRowsFrom(sortrow(wm, i), i + 1)

(***************************************************************************)
(* WeightMatrix::compact                                                   *)
(***************************************************************************)
StoredCols(wm) == UNION {Range(wm.idxs[i]) : i \in 0 .. (wm.nrow - 1)}

\* "Mark observed columns": ncol = 1 + largest stored column, 0 without entries
MarkedNcol(wm) ==
    IF StoredCols(wm) = {} THEN 0
    ELSE 1 + CHOOSE m \in StoredCols(wm) : \A c \in StoredCols(wm) : c <= m

\* "Reassign column indexes": newidx[i] = j++ for a marked column, j otherwise
RECURSIVE ReassignLoop(_, _, _, _)
ReassignLoop(marked, n, i, acc) ==
    IF i >= n THEN acc
    ELSE LET j == Cardinality({c \in marked : c < i})
         IN  ReassignLoop(marked, n, i + 1, Append(acc, j))

\* new indices in the order in which the columns are first met in the rows
ReassignedByFirstUse(wm) ==
    LET FirstUse(c) ==
            CHOOSE x \in {i * (MaxPush + 1) + k :
                              <<i, k>> \in {y \in (0 .. (wm.nrow - 1)) \X (1 .. MaxPush) :
                                               /\ y[2] <= wm.rowlens[y[1]]
                                               /\ wm.idxs[y[1]][y[2]] = c}} :
                \A z \in {i * (MaxPush + 1) + k :
                              <<i, k>> \in {y \in (0 .. (wm.nrow - 1)) \X (1 .. MaxPush) :
                                               /\ y[2] <= wm.rowlens[y[1]]
                                               /\ wm.idxs[y[1]][y[2]] = c}} : x <= z
    IN  [c \in 1 .. MarkedNcol(wm) |->
            IF (c - 1) \in StoredCols(wm)
            THEN Cardinality({d \in StoredCols(wm) : FirstUse(d) < FirstUse(c - 1)})
            ELSE 0]

Reassigned(wm) == ReassignLoop(StoredCols(wm), MarkedNcol(wm), 0, <<>>)

\* the values the read newidx[ncol - 1] can yield when ncol = 0: the index
\* wraps to 2^32 - 1, far outside the zero-length array.  A word is written
\* as its two's complement value, so -1 is the all-ones word and the unsigned
\* sum newidx[ncol - 1] + 1 is v + 1 for each of these values.
OutOfBoundsValues == {-1, 0, 1}

\* compact() once the new column count nc is known
CompactWith(wm, newidx, nc) ==
    LET w1 == [wm EXCEPT
                 !.reserved = [i \in DOMAIN wm.reserved |->
                                 IF wm.rowlens[i] = 0 THEN wm.reserved[i]
                                 ELSE wm.rowlens[i]],
                 !.ncol = nc,
                 !.idxs = [i \in DOMAIN wm.idxs |->
                             [k \in DOMAIN wm.idxs[i] |-> newidx[wm.idxs[i][k] + 1]]],
                 !.compacted = TRUE]
    IN  SortRowsFrom(w1, 0)

\* the set of results <<matrix, newidx>> of compact(); more than one only
\* where the code reads outside newidx
compact(wm) ==
    LET newidx == Reassigned(wm)
    IN  IF MarkedNcol(wm) > 0
           THEN {<<CompactWith(wm, newidx, newidx[MarkedNcol(wm)] + 1), newidx>>}
           ELSE {<<CompactWith(wm, newidx, v + 1), newidx>> :
                    v \in OutOfBoundsValues}

(***************************************************************************)
(* WeightMatrix::reorder_columns                                           *)
(***************************************************************************)
\* variant: the column indices stay as they are
reorder_columns_in_place(wm, map) == SortRowsFrom(wm, 0)

reorder_columns(wm, map) ==
    SortRowsFrom([wm EXCEPT
                    !.idxs = [i \in DOMAIN wm.idxs |->
                                [k \in DOMAIN wm.idxs[i] |-> map[wm.idxs[i][k] + 1]]]],
                 0)

(***************************************************************************)
(* WeightMatrixIterator                                                    *)
(***************************************************************************)
RECURSIVE IterSkip(_, _, _)
IterSkip(wm, i, k) ==
    IF i < wm.nrow /\ k >= wm.rowlens[i] THEN IterSkip(wm, i + 1, 0)
    ELSE <<i, k>>

IterAt(wm, ik) ==
    IF ik[1] < wm.nrow
       THEN [i |-> ik[1], k |-> ik[2], at_end |-> FALSE,
             e |-> <<ik[1], wm.idxs[ik[1]][ik[2] + 1], wm.rows[ik[1]][ik[2] + 1]>>]
       ELSE [i |-> ik[1], k |-> ik[2], at_end |-> TRUE, e |-> <<>>]

WeightMatrixIterator(wm) == IterAt(wm, IterSkip(wm, 0, 0))

increment(wm, it) ==
    IF it.i >= wm.nrow THEN it
    ELSE IterAt(wm, IterSkip(wm, it.i, it.k + 1))

\* all entries in iteration order: "for (entry(wm); entry != end; ++entry)"
RECURSIVE IterateFrom(_, _, _)
IterateFrom(wm, it, acc) ==
    IF it.at_end THEN acc
    ELSE IterateFrom(wm, increment(wm, it), Append(acc, it.e))

Entries(wm) == IterateFrom(wm, WeightMatrixIterator(wm), <<>>)

NoIterator == [i |-> 0, k |-> 0, at_end |-> TRUE, e |-> <<>>]

(***************************************************************************)
(* disjset_find / disjset_union.  ds[i] is the parent of item i; a find     *)
(* returns <<root, ds after path compression>>.                            *)
(***************************************************************************)
RECURSIVE disjset_find(_, _)
disjset_find(d, i) ==
    IF d[i + 1] = i THEN <<i, d>>
    ELSE LET r == disjset_find(d, d[i + 1])
         IN  <<r[1], [r[2] EXCEPT ![i + 1] = r[1]]>>

\* variant: links item j itself instead of the root of its set
disjset_union_no_find(d, i, j) ==
    LET a == disjset_find(d, i)
    IN  [a[2] EXCEPT ![j + 1] = a[1]]

disjset_union(d, i, j) ==
    LET a == disjset_find(d, i)
        b == disjset_find(a[2], j)
    IN  [b[2] EXCEPT ![b[1] + 1] = a[1]]

(***************************************************************************)
(* Sampler::Sampler, "Find connected components": fragments are items      *)
(* 0..ncol-1, transcript i is item ncol + i.                               *)
(***************************************************************************)
RECURSIVE UnionEntries(_, _, _)
UnionEntries(d, es, nc) ==
    IF es = <<>> THEN d
    ELSE UnionEntries(disjset_union(d, nc + Head(es)[1], Head(es)[2]), Tail(es), nc)

RECURSIVE FindAll(_, _)
FindAll(d, i) ==
    IF i >= Len(d) THEN d ELSE FindAll(disjset_find(d, i)[2], i + 1)

\* every item the root of a set of its own
UnconnectedRoots(wm) == [k \in 1 .. (wm.ncol + wm.nrow) |-> k - 1]

ConnectedRoots(wm) ==
    FindAll(UnionEntries([k \in 1 .. (wm.ncol + wm.nrow) |-> k - 1],
                         Entries(wm), wm.ncol), 0)

(***************************************************************************)
(* Sampler::Sampler, "Label components sequentially": component_label maps *)
(* a root to the number of roots seen before it.                           *)
(***************************************************************************)
RECURSIVE LabelOrder(_, _, _)
LabelOrder(d, i, seen) ==
    IF i >= Len(d) THEN seen
    ELSE IF d[i + 1] \in Range(seen) THEN LabelOrder(d, i + 1, seen)
         ELSE LabelOrder(d, i + 1, Append(seen, d[i + 1]))

\* variant: labels start at 1
component_label_from_one(seen, r) == CHOOSE k \in DOMAIN seen : seen[k] = r

component_label(seen, r) == (CHOOSE k \in DOMAIN seen : seen[k] = r) - 1

LabelledDs(d) ==
    LET seen == LabelOrder(d, 0, <<>>)
    IN  [k \in DOMAIN d |-> component_label(seen, d[k])]

NumComponents(d) == Len(LabelOrder(d, 0, <<>>))

(***************************************************************************)
(* Sampler::Sampler, "Label transcript components"                         *)
(***************************************************************************)
TranscriptComponent(d, nc, nr) == [i \in 0 .. (nr - 1) |-> d[nc + i + 1]]

RECURSIVE TranscriptsOf(_, _, _, _)
TranscriptsOf(tc, c, i, acc) ==
    IF i >= Cardinality(DOMAIN tc) THEN acc
    ELSE TranscriptsOf(tc, c, i + 1, IF tc[i] = c THEN Append(acc, i) ELSE acc)

ComponentTranscripts(tc, ncomp) ==
    [c \in 0 .. (ncomp - 1) |-> TranscriptsOf(tc, c, 0, <<>>)]

(***************************************************************************)
(* Sampler::Sampler, "Now, reorder columns by component".  std::sort with  *)
(* ComponentCmp orders idxord by component label; the order it gives to    *)
(* columns of equal label is unspecified, so every order that is sorted by *)
(* label is a possible idxord.                                             *)
(***************************************************************************)
\* a comparison of the column indices themselves
ComponentCmpByIndex(d, i, j) == i < j

\* bool operator () (unsigned int i, unsigned int j) { return ds[i] < ds[j]; }
ComponentCmp(d, i, j) == d[i + 1] < d[j + 1]

SortedOrders(d, nc) ==
    {ord \in [1 .. nc -> 0 .. (nc - 1)] :
        /\ \A a \in 1 .. nc, b \in 1 .. nc : a # b => ord[a] # ord[b]
        /\ \A a \in 1 .. nc, b \in 1 .. nc :
              a < b => ~ComponentCmp(d, ord[b], ord[a])}

\* idxmap[idxord[i]] = i
InverseOrder(ord) ==
    [c \in 1 .. Len(ord) |-> (CHOOSE a \in DOMAIN ord : ord[a] = c - 1) - 1]

RECURSIVE InsertSorted(_, _)
InsertSorted(s, x) ==
    IF s = <<>> THEN <<x>>
    ELSE IF x < Head(s) THEN <<x>> \o s
         ELSE <<Head(s)>> \o InsertSorted(Tail(s), x)

RECURSIVE SortedSeq(_)
SortedSeq(s) == IF s = <<>> THEN <<>> ELSE InsertSorted(SortedSeq(Tail(s)), Head(s))

\* std::sort(ds, ds + ncol)
SortedPrefix(d, nc) == SortedSeq(SubSeq(d, 1, nc)) \o SubSeq(d, nc + 1, Len(d))

(***************************************************************************)
(* Sampler::Sampler, "Build fragment count array".  Returns the            *)
(* component_frag array and the size of each component's dense arrays      *)
(* (0 where the arrays stay NULL).                                         *)
(***************************************************************************)
\* variant: a component takes a single column
RunEndOneColumn(d, nc, j, k) == IF k < nc THEN k + 1 ELSE k

RECURSIVE RunEnd(_, _, _, _)
RunEnd(d, nc, j, k) ==
    IF k < nc /\ d[j + 1] = d[k + 1] THEN RunEnd(d, nc, j, k + 1) ELSE k

RECURSIVE FragArrayLoop(_, _, _, _, _, _, _)
FragArrayLoop(d, nc, ncomp, i, j, cf, sizes) ==
    IF i >= ncomp THEN <<Append(cf, nc), sizes>>
    ELSE IF d[j + 1] > i
         THEN FragArrayLoop(d, nc, ncomp, i + 1, j, Append(cf, j), Append(sizes, 0))
         ELSE LET k == RunEnd(d, nc, j, j)
              IN  FragArrayLoop(d, nc, ncomp, i + 1, k, Append(cf, j),
                                Append(sizes, k - j))

FragArrays(d, nc, ncomp) == FragArrayLoop(d, nc, ncomp, 0, 0, <<>>, <<>>)

(***************************************************************************)
(* Sampler::Sampler, nz_frag_counts: the (fragment index, count) pairs     *)
(* process_locus recorded for the fragments it saw more than once.         *)
(***************************************************************************)
\* std::pair operator<
PairLess(a, b) == a[1] < b[1] \/ (a[1] = b[1] /\ a[2] < b[2])

RECURSIVE SortPairs(_)
SortPairs(s) ==
    IF s = <<>> THEN <<>>
    ELSE LET k == CHOOSE x \in DOMAIN s : \A y \in DOMAIN s : ~PairLess(s[y], s[x])
         IN  <<s[k]>> \o SortPairs(SubSeq(s, 1, k - 1) \o SubSeq(s, k + 1, Len(s)))

\* an unsigned int read from outside an array: a negative value stands for
\* an index above every column
Unsigned(x) == IF x < 0 THEN INT_MAX ELSE x

\* "Update frag_count indexes": i->first = idxmap[i->first] on every element;
\* g[k] is what the read for element k yields where it is outside idxmap
UpdatedIndexes(nz, map, g) ==
    [k \in DOMAIN nz |->
        IF nz[k][1] \in 0 .. (Len(map) - 1)
        THEN <<map[nz[k][1] + 1], nz[k][2]>>
        ELSE <<Unsigned(g[k]), nz[k][2]>>]

\* the component whose dense arrays hold column f, for f below ncol
ComponentOfColumn(cf, f) ==
    CHOOSE c \in 0 .. (Len(cf) - 2) : cf[c + 1] <= f /\ f < cf[c + 2]

\* std::fill(frag_counts[i], ..., 1.0f), then
\* while (fc != nz_frag_counts.end() && fc->first < k)
\*     frag_counts[i][fc->first - j] = (float) fc->second;
\* over the components i in increasing order and the sorted nz
RECURSIVE FragCounts(_, _, _, _)
FragCounts(fc, cf, nc, nz) ==
    IF nz = <<>> \/ Head(nz)[1] >= nc THEN fc
    ELSE LET c == ComponentOfColumn(cf, Head(nz)[1])
         IN  FragCounts([fc EXCEPT ![c][Head(nz)[1] - cf[c + 1] + 1] = Head(nz)[2]],
                        cf, nc, Tail(nz))

\* history: the column of each fragment after the columns moved by map;
\* a fragment without a stored entry has no column
MovedColumns(obs, wm, map) ==
    {[o EXCEPT !.col = {map[f + 1] : f \in o.col \cap StoredCols(wm)}] : o \in obs}

(***************************************************************************)
(* Threads.  A thread object holds the boost::thread pointer, NULL until   *)
(* start() and again after join(), the position st of run() and the local  *)
(* variables of run().                                                     *)
(***************************************************************************)
Workers == 0 .. (NumThreads - 1)

NULL == -1

Started == 1     \* a boost::thread pointer that is not NULL

NewThread(item) == [thread |-> NULL, st |-> "idle", item |-> item, i |-> 0, k |-> 0]

\* start(): "if (thread != NULL) return;", else run() begins at its first pop
start(t) == IF t.thread # NULL THEN t ELSE [t EXCEPT !.thread = Started, !.st = "pop"]

\* thread->join() returns once run() has returned
Joinable(t) == t.st = "returned"

\* join(): thread->join(); delete thread; thread = NULL;
join(t) == [t EXCEPT !.thread = NULL]

\* run() is between its first pop and its return
Running(t) == t.st \notin {"idle", "returned"}

(***************************************************************************)
(* Queue: a bounded blocking queue.  push waits while the queue is full,   *)
(* pop waits while it is empty and takes the oldest item.                  *)
(***************************************************************************)
CanPush(qu) == Len(qu) < QueueCapacity

CanPop(qu) == qu # <<>>

(***************************************************************************)
(* MultireadBlock and ComponentSubset, with their end-of-queue values.     *)
(***************************************************************************)
MultireadBlock(u, v) == [u |-> u, v |-> v]

EndMultireadBlock == MultireadBlock(INT_MAX, INT_MAX)

\* variant: a block that begins at the first multiread ends the queue
is_end_of_queue_at_zero(block) == block.u = 0

\* MultireadBlock::is_end_of_queue: return u == INT_MAX;
is_end_of_queue(block) == block.u = INT_MAX

\* a subset that always begins at cs itself
ComponentSubsetAtStart(c, len) == [cs |-> 0, len |-> len]

\* ComponentSubset(cs + c, len): the pointer is kept as the offset c into cs
ComponentSubset(c, len) == [cs |-> c, len |-> len]

EndComponentSubset == ComponentSubset(NULL, 0)

(***************************************************************************)
(* Arithmetic.  A double holds an integer number of units of 1/Unit.  A    *)
(* float keeps MantBits significant bits: below 2^MantBits units every     *)
(* integer is a float, from there on the floats are the multiples of 2,    *)
(* then of 4, and so on.  Conversions round to nearest, ties to even.      *)
(***************************************************************************)
Abs(x) == IF x < 0 THEN -x ELSE x

RECURSIVE Pow2(_)
Pow2(n) == IF n = 0 THEN 1 ELSE 2 * Pow2(n - 1)

\* the integer nearest to a / b, for a >= 0 and b > 0
RoundDivNat(a, b) ==
    LET lo == a \div b
        rem == a % b
    IN  IF 2 * rem < b THEN lo
        ELSE IF 2 * rem > b THEN lo + 1
        ELSE IF lo % 2 = 0 THEN lo ELSE lo + 1

RoundDiv(a, b) == IF a < 0 THEN -RoundDivNat(-a, b) ELSE RoundDivNat(a, b)

\* the spacing of the floats around a / b
RECURSIVE Spacing(_, _, _)
Spacing(a, b, sp) ==
    IF a < b * Pow2(MantBits) * sp THEN sp ELSE Spacing(a, b, 2 * sp)

Ulp(x) == Spacing(Abs(x), 1, 1)

\* the float nearest to a / b
FloatDiv(a, b) ==
    LET sp == Spacing(Abs(a), b, 1) IN sp * RoundDiv(a, b * sp)

\* the float nearest to x, tabulated for the magnitudes up to MaxFloat
FloatTable == [x \in (0 - MaxFloat) .. MaxFloat |-> FloatDiv(x, 1)]

Float(x) == FloatTable[x]

(***************************************************************************)
(* asxpy(ys, xs, c, idx, off, n): ys[idx[k] - off] += c * xs[k], k < n,    *)
(* on arrays of float.                                                     *)
(***************************************************************************)
RECURSIVE asxpy(_, _, _, _, _, _)
asxpy(ys, xs, cc, idx, off, n) ==
    IF n = 0 THEN ys
    ELSE LET at == idx[n] - off + 1
             done == asxpy(ys, xs, cc, idx, off, n - 1)
         IN  [done EXCEPT ![at] = Float(@ + cc * xs[n])]

\* the state outside FragmentModel::estimate, Sampler::Sampler and Sampler::run
NoInput == [nrow |-> 0, loci |-> <<>>, seen |-> <<>>, multiread_frags |-> <<>>,
            intervals |-> 0]

\* sam_scan has not been entered
NoScan == [st |-> "none", reads |-> <<>>, b |-> <<>>, last_tid |-> -1, last_pos |-> -1,
           j |-> 0, j0 |-> 0, added |-> <<>>, fa_f |-> FALSE, seq |-> <<>>,
           handed |-> <<>>, touched |-> {}]

\* no process_locus call has been made
NoIndexing == [first |-> 0, read_indexer |-> [next |-> 0, mut |-> NULL],
               returned |-> <<>>, reads |-> <<>>, locus |-> <<>>]

\* process_locus has not been entered
NoLocus == [st |-> "none"]

NoSearch == [st |-> "none"]

\* no run_inter_transcript call was the last step
NoCall == [u |-> NULL, v |-> NULL, finite |-> FALSE, calls |-> <<>>]

NoHistory ==
    [phase     |-> "none",   \* the thread-pool phase last begun
     returned  |-> FALSE,    \* all its joins have returned
     pushed    |-> <<>>,     \* the work items pushed in it
     sentinels |-> 0,        \* the number of end-of-queue values pushed in it
     popped    |-> {},       \* the work items popped in it
     twice     |-> FALSE,    \* some work item was popped a second time
     exits     |-> [w \in Workers |-> 0],   \* end-of-queue values popped by w
     joined    |-> {},       \* the phases that were joined after work was pushed
     shuffled  |-> FALSE,    \* cs was shuffled in this round
     intra     |-> <<>>,     \* run_intra_component calls on c in this round
     draws     |-> <<>>,     \* run_component calls on c in this round
     slack     |-> <<>>,     \* twice the rounding the updates of c could add
     rounding  |-> <<>>,     \* the rounding of the float operations on frag_probs[c][f]
     inter     |-> NoCall,   \* the run_inter_transcript call that was the last step
     resolved  |-> <<>>,     \* the threads that resolved multiread j in this round
     shape     |-> <<>>,     \* the shape of the gsl_ran_gamma call on c in this round
     shuffles  |-> <<>>,     \* gsl_ran_shuffle calls on component_transcripts[c] in this round
     pairs     |-> <<>>,     \* the (u, v) of the run_inter_transcript calls on c in this round
     z         |-> 0,        \* the z of the last normalization
     sum       |-> 0,        \* the sum of the cmix it normalized
     clamped   |-> {}]       \* the multireads whose draw the loop did not cover

NotRunning ==
    /\ input = NoInput
    /\ scan = NoScan
    /\ indexing = NoIndexing
    /\ locus = NoLocus
    /\ search = NoSearch
    /\ q = <<>>
    /\ threads = [w \in Workers |-> NewThread(NULL)]
    /\ loop = [i |-> 0, j0 |-> 0, r |-> 0, c |-> 0]
    /\ multiread_frags = <<>>
    /\ num_multireads = 0
    /\ multiread_alignments = <<>>
    /\ tmix = <<>>
    /\ cmix = <<>>
    /\ frag_count_sums = <<>>
    /\ cs = <<>>
    /\ sample_num = 0
    /\ component_queue = <<>>
    /\ mcmc_threads = [w \in Workers |-> NewThread(EndComponentSubset)]
    /\ multiread_queue = <<>>
    /\ multiread_threads = [w \in Workers |-> NewThread(EndMultireadBlock)]
    /\ hist = NoHistory

(***************************************************************************)
(* Specification SpecWM: any sequence of push calls, then compact(), then  *)
(* one pass of WeightMatrixIterator over the matrix.                       *)
(***************************************************************************)
\* the sampler fields before Sampler::Sampler has set them
NotConstructed ==
    /\ ds = <<>>
    /\ num_components = 0
    /\ transcript_component = <<>>
    /\ component_num_transcripts = <<>>
    /\ component_transcripts = <<>>
    /\ nz_frag_counts = <<>>
    /\ observed = {}
    /\ component_frag = <<>>
    /\ frag_counts = <<>>
    /\ frag_probs = <<>>
    /\ frag_probs_prop = <<>>

InitWM ==
    /\ pc = "push"
    /\ weight_matrix = NewWeightMatrix(NRow)
    /\ idxmap = <<>>
    /\ pushed = <<>>
    /\ entry = NoIterator
    /\ visited = <<>>
    /\ NotConstructed
    /\ NotRunning

Push ==
    /\ pc = "push"
    /\ Len(pushed) < MaxPush
    /\ \E i \in Rows, j \in Cols, w \in Weights :
          /\ weight_matrix' = push(weight_matrix, i, j, w)
          /\ pushed' = Append(pushed, <<i, j, w>>)
    /\ UNCHANGED <<pc, idxmap, entry, visited, compvars, fragvars, runvars>>

Compact ==
    /\ pc = "push"
    /\ \E r \in compact(weight_matrix) :
          /\ weight_matrix' = r[1]
          /\ idxmap' = r[2]
    /\ pc' = "compacted"
    /\ UNCHANGED <<pushed, entry, visited, compvars, fragvars, runvars>>

\* the out-of-bounds read of compact() hits an unmapped page
CompactFault ==
    /\ pc = "push"
    /\ MarkedNcol(weight_matrix) = 0
    /\ pc' = "fault"
    /\ UNCHANGED <<wmvars, compvars, fragvars, runvars>>

IterBegin ==
    /\ pc = "compacted"
    /\ entry' = WeightMatrixIterator(weight_matrix)
    /\ pc' = "iterate"
    /\ UNCHANGED <<weight_matrix, idxmap, pushed, visited, compvars, fragvars, runvars>>

IterNext ==
    /\ pc = "iterate"
    /\ ~entry.at_end
    /\ visited' = Append(visited, entry.e)
    /\ entry' = increment(weight_matrix, entry)
    /\ UNCHANGED <<pc, weight_matrix, idxmap, pushed, compvars, fragvars, runvars>>

IterEnd ==
    /\ pc = "iterate"
    /\ entry.at_end
    /\ pc' = "iterated"
    /\ UNCHANGED <<wmvars, compvars, fragvars, runvars>>

vars == <<pc, wmvars, compvars, fragvars, runvars>>

NextWM == Push \/ Compact \/ CompactFault \/ IterBegin \/ IterNext \/ IterEnd

SpecWM == InitWM /\ [][NextWM]_vars

(***************************************************************************)
(* Specification SpecCtor: Sampler::Sampler from the point where the       *)
(* initialization threads have been joined.  The weight matrix holds what  *)
(* process_locus pushed: at most one entry per (transcript, fragment),     *)
(* the columns of a row in no particular order.  Every fragment index was  *)
(* handed out by read_indexer; nz_frag_counts holds the fragments seen     *)
(* more than once, with or without an entry in the matrix.                 *)
(***************************************************************************)
Uninit == -1     \* content of an array element that was allocated but not yet written

EntryWeight(t, f) == 1 + ((t + f) % MaxWeight)

\* the pushes of a set of (transcript, fragment) pairs: rows in increasing
\* order, the columns of a row in decreasing order
RECURSIVE PushesOf(_)
PushesOf(E) ==
    IF E = {} THEN <<>>
    ELSE LET first == CHOOSE e \in E :
                         \A o \in E : \/ e[1] < o[1]
                                      \/ (e[1] = o[1] /\ e[2] >= o[2])
         IN  <<(<<first[1], first[2], EntryWeight(first[1], first[2])>>)>>
                \o PushesOf(E \ {first})

RECURSIVE PushAll(_, _)
PushAll(wm, ps) ==
    IF ps = <<>> THEN wm
    ELSE PushAll(push(wm, Head(ps)[1], Head(ps)[2], Head(ps)[3]), Tail(ps))

\* process_locus: if (f->second.second > 1) frag_counts.push_back(f->second);
\* for fragments seen seen[f] times
NzFragCounts(seen) ==
    SelectSeq([k \in 1 .. (MaxCol + 1) |-> <<k - 1, seen[k - 1]>>],
              LAMBDA e : e[2] > 1)

InitCtor ==
    /\ pc = "ctor_compact"
    /\ \E E \in SUBSET (Rows \X Cols) :
          /\ pushed = PushesOf(E)
          /\ weight_matrix = PushAll(NewWeightMatrix(NRow), PushesOf(E))
    /\ \E seen \in [Cols -> 1 .. MaxSeen] :
          /\ observed = {[frag |-> f, count |-> seen[f], col |-> {f}] : f \in Cols}
          /\ nz_frag_counts = NzFragCounts(seen)
    /\ idxmap = <<>>
    /\ entry = NoIterator
    /\ visited = <<>>
    /\ ds = <<>>
    /\ num_components = 0
    /\ transcript_component = <<>>
    /\ component_num_transcripts = <<>>
    /\ component_transcripts = <<>>
    /\ component_frag = <<>>
    /\ frag_counts = <<>>
    /\ frag_probs = <<>>
    /\ frag_probs_prop = <<>>
    /\ NotRunning

\* unsigned int* idxmap = weight_matrix->compact(); "Update frag_count indexes"
CtorCompact ==
    /\ pc = "ctor_compact"
    /\ \E r \in compact(weight_matrix) :
          /\ weight_matrix' = r[1]
          /\ idxmap' = r[2]
          /\ \E g \in [DOMAIN nz_frag_counts -> OutOfBoundsValues] :
                nz_frag_counts' = UpdatedIndexes(nz_frag_counts, r[2], g)
          /\ observed' = MovedColumns(observed, weight_matrix, r[2])
    /\ pc' = "ctor_components"
    /\ UNCHANGED <<pushed, entry, visited, compvars, component_frag, frag_counts,
                   frag_probs, frag_probs_prop, runvars>>

\* the out-of-bounds read of compact() hits an unmapped page
CtorCompactFault ==
    /\ pc = "ctor_compact"
    /\ MarkedNcol(weight_matrix) = 0
    /\ pc' = "fault"
    /\ UNCHANGED <<wmvars, compvars, fragvars, runvars>>

\* "Find connected components"
CtorFindComponents ==
    /\ pc = "ctor_components"
    /\ ds' = ConnectedRoots(weight_matrix)
    /\ pc' = "ctor_label"
    /\ UNCHANGED <<wmvars, num_components, transcript_component,
                   component_num_transcripts, component_transcripts, fragvars, runvars>>

\* "Label components sequentially"
CtorLabelComponents ==
    /\ pc = "ctor_label"
    /\ ds' = LabelledDs(ds)
    /\ num_components' = NumComponents(ds)
    /\ pc' = "ctor_transcripts"
    /\ UNCHANGED <<wmvars, transcript_component,
                   component_num_transcripts, component_transcripts, fragvars, runvars>>

\* "Label transcript components"
CtorLabelTranscripts ==
    /\ pc = "ctor_transcripts"
    /\ LET tc == TranscriptComponent(ds, weight_matrix.ncol, weight_matrix.nrow)
           ct == ComponentTranscripts(tc, num_components)
       IN  /\ transcript_component' = tc
           /\ component_transcripts' = ct
           /\ component_num_transcripts' =
                 [c \in 0 .. (num_components - 1) |-> Len(ct[c])]
    /\ pc' = "ctor_reorder"
    /\ UNCHANGED <<wmvars, ds, num_components, fragvars, runvars>>

\* "Now, reorder columns by component"
CtorReorderColumns ==
    /\ pc = "ctor_reorder"
    /\ \E idxord \in SortedOrders(ds, weight_matrix.ncol) :
          /\ idxmap' = InverseOrder(idxord)
          /\ weight_matrix' = reorder_columns(weight_matrix, InverseOrder(idxord))
          /\ \E g \in [DOMAIN nz_frag_counts -> OutOfBoundsValues] :
                nz_frag_counts' =
                   SortPairs(UpdatedIndexes(nz_frag_counts, InverseOrder(idxord), g))
          /\ observed' = MovedColumns(observed, weight_matrix, InverseOrder(idxord))
    /\ ds' = SortedPrefix(ds, weight_matrix.ncol)
    /\ pc' = "ctor_frag_arrays"
    /\ UNCHANGED <<pushed, entry, visited, num_components, transcript_component,
                   component_num_transcripts, component_transcripts, component_frag,
                   frag_counts, frag_probs, frag_probs_prop, runvars>>

\* "Build fragment count array"
CtorBuildFragArrays ==
    /\ pc = "ctor_frag_arrays"
    /\ LET fa == FragArrays(ds, weight_matrix.ncol, num_components)
       IN  /\ component_frag' = fa[1]
           /\ frag_counts' = FragCounts([c \in 0 .. (num_components - 1) |->
                                            [k \in 1 .. fa[2][c + 1] |-> 1]],
                                        fa[1], weight_matrix.ncol, nz_frag_counts)
           /\ frag_probs' = [c \in 0 .. (num_components - 1) |->
                                [k \in 1 .. fa[2][c + 1] |-> Uninit]]
           /\ frag_probs_prop' = [c \in 0 .. (num_components - 1) |->
                                     [k \in 1 .. fa[2][c + 1] |-> Uninit]]
    /\ pc' = "constructed"
    /\ UNCHANGED <<wmvars, compvars, nz_frag_counts, observed, runvars>>

NextCtor ==
    \/ CtorCompact \/ CtorCompactFault \/ CtorFindComponents
    \/ CtorLabelComponents \/ CtorLabelTranscripts
    \/ CtorReorderColumns \/ CtorBuildFragArrays

SpecCtor == InitCtor /\ [][NextCtor]_vars

(***************************************************************************)
(* Specification SpecScan: sam_scan over any stream of up to MaxReads      *)
(* alignments.  The intervals are sorted by SamplerInitIntervalPtrCmp; an  *)
(* interval whose sequence is not in the header has tid -1.  finish() is   *)
(* q.push(this); the initialization threads pop what is pushed.            *)
(***************************************************************************)
ScanIntervals ==
    << [tid |-> -1, min_start |-> 0, max_end |-> 1],
       [tid |-> 0, min_start |-> 0, max_end |-> 0],
       [tid |-> 0, min_start |-> 0, max_end |-> MaxPos],
       [tid |-> 0, min_start |-> 1, max_end |-> 1],
       [tid |-> 1, min_start |-> 1, max_end |-> 1] >>

\* a record read by samread: b->core.tid, b->core.pos, the BAM_FUNMAP flag
\* and the number of positions after pos that bam_calend counts less one: an
\* alignment whose CIGAR covers no position of the reference has span -1
Alignments ==
    {b \in [tid : -1 .. MaxTid, pos : 0 .. MaxPos, span : -1 .. 1, unmapped : BOOLEAN] :
        b.unmapped => b.span = 0}

\* the flag alone
SkippedByFlag(b) == b.unmapped

\* if (b->core.flag & BAM_FUNMAP || b->core.tid < 0) continue;
Skipped(b) == b.unmapped \/ b.tid < 0

\* b->core.tid < last_tid || (b->core.tid == last_tid && b->core.pos < last_pos)
Unsorted(b, last_tid, last_pos) ==
    b.tid < last_tid \/ (b.tid = last_tid /\ b.pos < last_pos)

\* variant: the end of an alignment is its first position
b_end_at_pos(b) == b.pos

\* (pos_t) bam_calend(&b->core, bam1_cigar(b)) - 1
b_end(b) == b.pos + b.span

\* no sequence was given to the interval
NoSeq == -1

\* if (fa_f && b->core.tid != last_tid)
FetchesSequence(b) == scan.fa_f /\ b.tid # scan.last_tid

\* for (j = j0; j < n && b->core.tid == intervals[j]->tid; ++j): the
\* intervals whose tid is read
SeqTested(b, j0) ==
    {j \in j0 .. (Len(ScanIntervals) - 1) :
        \A i \in j0 .. (j - 1) : ScanIntervals[i + 1].tid = b.tid}

\* intervals[j]->seq = seq: the intervals that get the sequence
SeqAssigned(b, j0) == {j \in SeqTested(b, j0) : ScanIntervals[j + 1].tid = b.tid}

\* variant: the loop over the intervals begins at the first interval
FirstIntervalOfAll(j0) == 0

\* for (j = j0; j < n; ++j)
FirstInterval(j0) == j0

\* intervals[j0++]->finish() while alignment number k is in b, or after the
\* last one: the alignments before it have been through the loop
Finished(sc, k) ==
    [sc EXCEPT !.j0 = @ + 1, !.handed[sc.j0 + 1] = Append(@, k)]

InitScan ==
    /\ pc = "sam_scan"
    /\ weight_matrix = NewWeightMatrix(0)
    /\ idxmap = <<>>
    /\ pushed = <<>>
    /\ entry = NoIterator
    /\ visited = <<>>
    /\ NotConstructed
    /\ input = NoInput
    /\ indexing = NoIndexing
    /\ locus = NoLocus
    /\ search = NoSearch
    /\ \E fa_f \in BOOLEAN :
          scan = [NoScan EXCEPT !.st = "read",
                                !.fa_f = fa_f,
                                !.seq = [k \in DOMAIN ScanIntervals |-> NoSeq],
                                !.handed = [k \in DOMAIN ScanIntervals |-> <<>>],
                                !.added = [k \in DOMAIN ScanIntervals |-> <<>>]]
    /\ q = <<>>
    /\ threads = [w \in Workers |-> NewThread(NULL)]
    /\ loop = [i |-> 0, j0 |-> 0, r |-> 0, c |-> 0]
    /\ multiread_frags = <<>>
    /\ num_multireads = 0
    /\ multiread_alignments = <<>>
    /\ tmix = <<>>
    /\ cmix = <<>>
    /\ frag_count_sums = <<>>
    /\ cs = <<>>
    /\ sample_num = 0
    /\ component_queue = <<>>
    /\ mcmc_threads = [w \in Workers |-> NewThread(EndComponentSubset)]
    /\ multiread_queue = <<>>
    /\ multiread_threads = [w \in Workers |-> NewThread(EndMultireadBlock)]
    /\ hist = NoHistory

ScanUnchanged ==
    UNCHANGED <<wmvars, compvars, fragvars, input, indexing, locus, search, threads, loop,
                multireadvars, mixvars, roundvars, hist>>

\* while (samread(bam_f, b) > 0): the record is skipped, or the run is
\* aborted, or the sequence is fetched and given to intervals, last_tid and
\* last_pos are set and the loop over the intervals is entered at j = j0
SamRead ==
    /\ pc = "sam_scan"
    /\ scan.st = "read"
    /\ Len(scan.reads) < MaxReads
    /\ \E b \in Alignments, found \in BOOLEAN :
          scan' = IF Skipped(b)
                  THEN [scan EXCEPT !.reads = Append(@, b), !.touched = {}]
                  ELSE IF Unsorted(b, scan.last_tid, scan.last_pos)
                  THEN [scan EXCEPT !.reads = Append(@, b), !.touched = {},
                                    !.st = "aborted"]
                  ELSE IF FetchesSequence(b) /\ ~found
                  THEN [scan EXCEPT !.reads = Append(@, b), !.touched = {},
                                    !.st = "no_sequence"]
                  ELSE [scan EXCEPT
                           !.reads = Append(@, b), !.b = b,
                           !.seq = [k \in DOMAIN @ |->
                                       IF FetchesSequence(b)
                                            /\ k - 1 \in SeqAssigned(b, scan.j0)
                                       THEN b.tid ELSE @[k]],
                           !.touched = IF FetchesSequence(b)
                                       THEN SeqTested(b, scan.j0) ELSE {},
                           !.last_tid = b.tid, !.last_pos = b.pos,
                           !.j = FirstInterval(scan.j0), !.st = "intervals"]
    /\ UNCHANGED <<pc, q>>
    /\ ScanUnchanged

\* one pass of "for (j = j0; j < n; ++j)": a break, a finished interval, or
\* an interval that may take the alignment
SamScanInterval ==
    /\ pc = "sam_scan"
    /\ scan.st = "intervals"
    /\ LET b == scan.b
           j == scan.j
           k == Len(scan.reads)
       IN  IF j >= Len(ScanIntervals)
           THEN scan' = [scan EXCEPT !.st = "read", !.touched = {}] /\ q' = q
           ELSE IF b.tid < ScanIntervals[j + 1].tid
           THEN scan' = [scan EXCEPT !.st = "read", !.touched = {j}] /\ q' = q
           ELSE IF b.tid > ScanIntervals[j + 1].tid
           THEN /\ CanPush(q)
                /\ q' = Append(q, scan.j0)
                /\ scan' = [Finished(scan, k - 1) EXCEPT
                                !.j = @ + 1, !.touched = {j, scan.j0}]
           ELSE IF b.pos < ScanIntervals[j + 1].min_start
           THEN scan' = [scan EXCEPT !.st = "read", !.touched = {j}] /\ q' = q
           ELSE IF b.pos > ScanIntervals[j + 1].max_end
           THEN IF j = scan.j0
                THEN /\ CanPush(q)
                     /\ q' = Append(q, scan.j0)
                     /\ scan' = [Finished(scan, k - 1) EXCEPT
                                     !.j = @ + 1, !.touched = {j}]
                ELSE scan' = [scan EXCEPT !.j = @ + 1, !.touched = {j}] /\ q' = q
           ELSE /\ scan' = [scan EXCEPT
                               !.j = @ + 1,
                               !.touched = {j},
                               !.added[j + 1] =
                                   IF b_end(b) <= ScanIntervals[j + 1].max_end
                                   THEN Append(@, k) ELSE @]
                /\ q' = q
    /\ UNCHANGED pc
    /\ ScanUnchanged

\* samread returns no record
SamReadEnd ==
    /\ pc = "sam_scan"
    /\ scan.st = "read"
    /\ scan' = [scan EXCEPT !.st = "finish", !.touched = {}]
    /\ UNCHANGED <<pc, q>>
    /\ ScanUnchanged

\* for (; j0 < n; ++j0) intervals[j0]->finish();
SamScanFinish ==
    /\ pc = "sam_scan"
    /\ scan.st = "finish"
    /\ scan.j0 < Len(ScanIntervals)
    /\ CanPush(q)
    /\ q' = Append(q, scan.j0)
    /\ scan' = [Finished(scan, Len(scan.reads)) EXCEPT !.touched = {scan.j0}]
    /\ UNCHANGED pc
    /\ ScanUnchanged

SamScanReturn ==
    /\ pc = "sam_scan"
    /\ scan.st = "finish"
    /\ scan.j0 >= Len(ScanIntervals)
    /\ scan' = [scan EXCEPT !.st = "returned", !.touched = {}]
    /\ pc' = "scanned"
    /\ UNCHANGED q
    /\ ScanUnchanged

\* an initialization thread pops an interval, which it deletes after use
SamScanPop ==
    /\ pc \in {"sam_scan", "scanned"}
    /\ scan.st \notin {"aborted", "no_sequence"}
    /\ CanPop(q)
    /\ q' = Tail(q)
    /\ UNCHANGED <<pc, scan>>
    /\ ScanUnchanged

NextScan ==
    SamRead \/ SamScanInterval \/ SamReadEnd \/ SamScanFinish \/ SamScanReturn
        \/ SamScanPop

SpecScan == InitScan /\ [][NextScan]_vars

(***************************************************************************)
(* Specification SpecIndexer: every initialization thread runs the first   *)
(* loop of process_locus over the reads of a locus of its own, and the     *)
(* threads share read_indexer.  A read is the fragment (AlignmentPair) it  *)
(* aligns to; get() is lock, load next, store next + 1, unlock and return. *)
(***************************************************************************)
Frags == 0 .. MaxFrag

\* a->frag_len(*t) >= 0 for some transcript t of the locus
has_compatible_transcript(a) == a < MaxFrag

ReadSets == UNION {[1 .. n -> Frags] : n \in 0 .. MaxLocusReads}

\* a lock that is granted whoever holds it
LockedAnyway(mut) == TRUE

\* boost::lock_guard<boost::mutex> lock(mut) returns once no thread holds mut
Lockable(mut) == mut = NULL

InitIndexer ==
    /\ pc = "process_locus"
    /\ weight_matrix = NewWeightMatrix(0)
    /\ idxmap = <<>>
    /\ pushed = <<>>
    /\ entry = NoIterator
    /\ visited = <<>>
    /\ NotConstructed
    /\ input = NoInput
    /\ scan = NoScan
    /\ \E first \in 0 .. 1, rs \in [Workers -> ReadSets] :
          indexing = [first |-> first,
                      read_indexer |-> [next |-> first, mut |-> NULL],
                      returned |-> <<>>,
                      reads |-> rs,
                      locus |-> [w \in Workers |->
                                    [st |-> "read", r |-> 0, got |-> 0,
                                     frag_idx |-> <<>>, excluded_frags |-> {}]]]
    /\ locus = NoLocus
    /\ search = NoSearch
    /\ q = <<>>
    /\ threads = [w \in Workers |-> NewThread(NULL)]
    /\ loop = [i |-> 0, j0 |-> 0, r |-> 0, c |-> 0]
    /\ multiread_frags = <<>>
    /\ num_multireads = 0
    /\ multiread_alignments = <<>>
    /\ tmix = <<>>
    /\ cmix = <<>>
    /\ frag_count_sums = <<>>
    /\ cs = <<>>
    /\ sample_num = 0
    /\ component_queue = <<>>
    /\ mcmc_threads = [w \in Workers |-> NewThread(EndComponentSubset)]
    /\ multiread_queue = <<>>
    /\ multiread_threads = [w \in Workers |-> NewThread(EndMultireadBlock)]
    /\ hist = NoHistory

IndexerUnchanged ==
    UNCHANGED <<pc, wmvars, compvars, fragvars, input, scan, locus, search, q, threads, loop,
                multireadvars, mixvars, roundvars, hist>>

\* the thread after the pass of the loop over the reads
NextRead(l, rs) ==
    IF l.r + 1 < Len(rs) THEN [l EXCEPT !.r = @ + 1, !.st = "read"]
    ELSE [l EXCEPT !.r = @ + 1, !.st = "done"]

\* one pass of "for (ReadSetIterator r(locus->rs); ...)" up to the call of
\* read_indexer.get(), or the whole pass when get() is not called
ProcessRead(w) ==
    /\ indexing.locus[w].st = "read"
    /\ indexing.locus[w].r < Len(indexing.reads[w])
    /\ LET l == indexing.locus[w]
           a == indexing.reads[w][l.r + 1]
       IN  indexing' =
              [indexing EXCEPT !.locus[w] =
                  IF a \in l.excluded_frags
                  THEN NextRead(l, indexing.reads[w])
                  ELSE IF a \in DOMAIN l.frag_idx
                  THEN NextRead([l EXCEPT !.frag_idx[a].second = @ + 1],
                                indexing.reads[w])
                  ELSE IF has_compatible_transcript(a)
                  THEN [l EXCEPT !.st = "get"]
                  ELSE NextRead([l EXCEPT !.excluded_frags = @ \cup {a}],
                                indexing.reads[w])]
    /\ IndexerUnchanged

\* a locus without reads
ProcessNoRead(w) ==
    /\ indexing.locus[w].st = "read"
    /\ indexing.reads[w] = <<>>
    /\ indexing' = [indexing EXCEPT !.locus[w].st = "done"]
    /\ IndexerUnchanged

\* Indexer::get: boost::lock_guard<boost::mutex> lock(mut);
IndexerLock(w) ==
    /\ indexing.locus[w].st = "get"
    /\ Lockable(indexing.read_indexer.mut)
    /\ indexing' = [indexing EXCEPT !.read_indexer.mut = w, !.locus[w].st = "load"]
    /\ IndexerUnchanged

\* Indexer::get: next++, the load
IndexerLoad(w) ==
    /\ indexing.locus[w].st = "load"
    /\ indexing' = [indexing EXCEPT !.locus[w].got = indexing.read_indexer.next,
                                    !.locus[w].st = "store"]
    /\ IndexerUnchanged

\* Indexer::get: next++, the store
IndexerStore(w) ==
    /\ indexing.locus[w].st = "store"
    /\ indexing' = [indexing EXCEPT !.read_indexer.next = indexing.locus[w].got + 1,
                                    !.locus[w].st = "return"]
    /\ IndexerUnchanged

\* Indexer::get returns and releases mut; f.first = the index; f.second = 1;
IndexerReturn(w) ==
    /\ indexing.locus[w].st = "return"
    /\ LET l == indexing.locus[w]
           a == indexing.reads[w][l.r + 1]
       IN  indexing' =
              [indexing EXCEPT
                  !.read_indexer.mut = NULL,
                  !.returned = Append(@, l.got),
                  !.locus[w] =
                      NextRead([l EXCEPT !.frag_idx =
                                   [x \in DOMAIN l.frag_idx \cup {a} |->
                                       IF x = a THEN [first |-> l.got, second |-> 1]
                                       ELSE l.frag_idx[x]]],
                               indexing.reads[w])]
    /\ IndexerUnchanged

NextIndexer ==
    \E w \in Workers :
        \/ ProcessRead(w) \/ ProcessNoRead(w) \/ IndexerLock(w) \/ IndexerLoad(w)
        \/ IndexerStore(w) \/ IndexerReturn(w)

SpecIndexer == InitIndexer /\ [][NextIndexer]_vars

(***************************************************************************)
(* Specification Spec: FragmentModel::estimate, then Sampler::Sampler,     *)
(* then Sampler::run, with the worker threads of each.                     *)
(*                                                                         *)
(* The input of a run is the list of transcript loci, each with the        *)
(* (transcript, fragment, weight) entries process_locus pushes for it, the *)
(* fragments of its frag_idx map as (fragment index, count) pairs, the     *)
(* (multiread, fragment) pairs of the multiread table, and the number of   *)
(* intervals FragmentModel::estimate collects.  process_locus of this      *)
(* build skips every multiread, so the pairs are drawn as what the         *)
(* multiread collection would hand to Sampler::Sampler.                    *)
(***************************************************************************)
NoReads ==
    [nrow            |-> 1,
     loci            |-> << <<>> >>,
     seen            |-> << <<>> >>,
     multiread_frags |-> <<>>,
     intervals       |-> 0]

\* one locus: two transcripts that share a fragment, which was seen twice
OneLocus ==
    [nrow            |-> 2,
     loci            |-> << << <<0, 0, 1>>, <<1, 0, MaxWeight>> >> >>,
     seen            |-> << << <<0, MaxSeen>> >> >>,
     multiread_frags |-> <<>>,
     intervals       |-> 1]

\* two loci, and a read aligned in both
TwoLoci ==
    [nrow            |-> 3,
     loci            |-> << << <<0, 0, 1>>, <<1, 0, MaxWeight>> >>,
                            << <<2, 1, MaxWeight>> >> >>,
     seen            |-> << <<>>, <<>> >>,
     multiread_frags |-> << <<0, 0>>, <<0, 1>> >>,
     intervals       |-> 2]

\* more components than one ComponentSubset holds
ManyLoci ==
    [nrow            |-> ComponentBatchSize + 1,
     loci            |-> [l \in 1 .. (ComponentBatchSize + 1) |->
                             IF l = 1 THEN << <<0, 0, 1>> >> ELSE <<>>],
     seen            |-> [l \in 1 .. (ComponentBatchSize + 1) |->
                             IF l = 1 THEN << <<0, 1>> >> ELSE <<>>],
     multiread_frags |-> <<>>,
     intervals       |-> 3]

RunInputs == {NoReads, OneLocus, TwoLoci, ManyLoci}

\* the (multiread, fragment) pairs collected with the pushes ps of a locus
LocusMultireads(ps) ==
    SelectSeq(input.multiread_frags,
              LAMBDA mf : \E k \in DOMAIN ps : ps[k][2] = mf[2])

\* history of the push calls, kept in the order of the rows
LogPushes(done, ps) ==
    IF ps = <<>> THEN done
    ELSE SelectSeq(done, LAMBDA p : p[1] < ps[1][1]) \o ps
            \o SelectSeq(done, LAMBDA p : p[1] >= ps[1][1])

(***************************************************************************)
(* History of the current thread-pool phase.                               *)
(***************************************************************************)
BeginPhase(h, ph) ==
    [h EXCEPT !.phase = ph, !.returned = FALSE, !.pushed = <<>>, !.sentinels = 0,
              !.popped = {}, !.twice = FALSE,
              !.exits = [w \in Workers |-> 0]]

LogPush(h, x) == [h EXCEPT !.pushed = Append(@, x)]

LogSentinel(h) == [h EXCEPT !.sentinels = @ + 1]

LogPop(h, x) == [h EXCEPT !.popped = @ \cup {x}, !.twice = @ \/ (x \in h.popped)]

LogExit(h, w) == [h EXCEPT !.exits[w] = @ + 1]

EndPhase(h) ==
    [h EXCEPT !.returned = TRUE,
              !.joined = IF h.pushed # <<>> THEN @ \cup {h.phase} ELSE @]

(***************************************************************************)
(* The producer side of a thread-pool phase, as the main thread runs it.   *)
(***************************************************************************)
\* a loop that stops one end-of-queue value short
PushSentinelOneShort(qu, x, at, next) ==
    /\ pc = at
    /\ CanPush(qu)
    /\ hist' = LogSentinel(hist)
    /\ IF loop.i + 2 < NumThreads
          THEN /\ loop' = [loop EXCEPT !.i = @ + 1]
               /\ pc' = pc
          ELSE /\ loop' = [loop EXCEPT !.i = 0]
               /\ pc' = next

\* for (i = 0; i < num_threads; ++i) q.push(end of queue)
PushSentinel(qu, x, at, next) ==
    /\ pc = at
    /\ CanPush(qu)
    /\ hist' = LogSentinel(hist)
    /\ IF loop.i + 1 < NumThreads
          THEN /\ loop' = [loop EXCEPT !.i = @ + 1]
               /\ pc' = pc
          ELSE /\ loop' = [loop EXCEPT !.i = 0]
               /\ pc' = next

\* for (i = 0; i < num_threads; ++i) threads[i]->join()
JoinNext(ths, at, next) ==
    /\ pc = at
    /\ Joinable(ths[loop.i])
    /\ IF loop.i + 1 < NumThreads
          THEN /\ loop' = [loop EXCEPT !.i = @ + 1]
               /\ pc' = pc
               /\ hist' = hist
          ELSE /\ loop' = [loop EXCEPT !.i = 0]
               /\ pc' = next
               /\ hist' = EndPhase(hist)

Constructing == <<wmvars, compvars, fragvars>>

InitSpec ==
    /\ pc = "estimate"
    /\ weight_matrix = NewWeightMatrix(0)
    /\ idxmap = <<>>
    /\ pushed = <<>>
    /\ entry = NoIterator
    /\ visited = <<>>
    /\ NotConstructed
    /\ input \in RunInputs
    /\ scan = NoScan
    /\ indexing = NoIndexing
    /\ locus = NoLocus
    /\ search = NoSearch
    /\ q = <<>>
    /\ threads = [w \in Workers |-> NewThread(NULL)]
    /\ loop = [i |-> 0, j0 |-> 0, r |-> 0, c |-> 0]
    /\ multiread_frags = <<>>
    /\ num_multireads = 0
    /\ multiread_alignments = <<>>
    /\ tmix = <<>>
    /\ cmix = <<>>
    /\ frag_count_sums = <<>>
    /\ cs = <<>>
    /\ sample_num = 0
    /\ component_queue = <<>>
    /\ mcmc_threads = [w \in Workers |-> NewThread(EndComponentSubset)]
    /\ multiread_queue = <<>>
    /\ multiread_threads = [w \in Workers |-> NewThread(EndMultireadBlock)]
    /\ hist = NoHistory

(***************************************************************************)
(* FragmentModel::estimate                                                 *)
(***************************************************************************)
\* threads.push_back(new FragmentModelThread(q)); threads.back()->start();
EstimateStartThreads ==
    /\ pc = "estimate"
    /\ q' = <<>>
    /\ threads' = [w \in Workers |-> start(NewThread(NULL))]
    /\ loop' = [loop EXCEPT !.j0 = 0]
    /\ hist' = BeginPhase(hist, "estimate")
    /\ pc' = "estimate_scan"
    /\ UNCHANGED <<Constructing, input, scan, indexing, locus, search, multireadvars, mixvars, roundvars>>

\* sam_scan: intervals[j0++]->finish(), which is q.push(this)
EstimateScanFinish ==
    /\ pc = "estimate_scan"
    /\ loop.j0 < input.intervals
    /\ CanPush(q)
    /\ q' = Append(q, loop.j0)
    /\ loop' = [loop EXCEPT !.j0 = @ + 1]
    /\ hist' = LogPush(hist, loop.j0)
    /\ UNCHANGED <<pc, Constructing, input, scan, indexing, locus, search, threads,
                   multireadvars, mixvars, roundvars>>

\* sam_scan returns once every interval is finished
EstimateScanReturn ==
    /\ pc = "estimate_scan"
    /\ loop.j0 >= input.intervals
    /\ loop' = [loop EXCEPT !.i = 0]
    /\ pc' = "estimate_sentinels"
    /\ UNCHANGED <<Constructing, input, scan, indexing, locus, search, q, threads, multireadvars, mixvars,
                   roundvars, hist>>

EstimatePushSentinel ==
    /\ PushSentinel(q, NULL, "estimate_sentinels", "estimate_join")
    /\ q' = Append(q, NULL)
    /\ UNCHANGED <<Constructing, input, scan, indexing, locus, search, threads,
                   multireadvars, mixvars, roundvars>>

\* the last join is followed by the collection of the statistics and
\* "delete threads[i]"
EstimateJoin ==
    /\ JoinNext(threads, "estimate_join", "sampler")
    /\ threads' = [threads EXCEPT ![loop.i] = join(@)]
    /\ UNCHANGED <<Constructing, input, scan, indexing, locus, search, q, multireadvars, mixvars, roundvars>>

InEstimate == pc \in {"estimate_scan", "estimate_sentinels", "estimate_join"}

\* FragmentModelThread::run: interval = q.pop(); if (interval == NULL) break;
FragmentModelThreadPop(w) ==
    /\ InEstimate
    /\ threads[w].st = "pop"
    /\ CanPop(q)
    /\ q' = Tail(q)
    /\ IF Head(q) = NULL
          THEN /\ threads' = [threads EXCEPT ![w].st = "returned"]
               /\ hist' = LogExit(hist, w)
          ELSE /\ threads' = [threads EXCEPT ![w].st = "work", ![w].item = Head(q)]
               /\ hist' = LogPop(hist, Head(q))
    /\ UNCHANGED <<pc, Constructing, input, scan, indexing, locus, search, loop,
                   multireadvars, mixvars, roundvars>>

\* FragmentModelThread::run: the measurements of the interval; delete interval
FragmentModelThreadMeasure(w) ==
    /\ InEstimate
    /\ threads[w].st = "work"
    /\ threads' = [threads EXCEPT ![w].st = "pop", ![w].item = NULL]
    /\ UNCHANGED <<pc, Constructing, input, scan, indexing, locus, search, q, loop, multireadvars, mixvars,
                   roundvars, hist>>

(***************************************************************************)
(* Sampler::Sampler up to the join of the initialization threads           *)
(***************************************************************************)
\* weight_matrix = new WeightMatrix(ts.size()); the threads are started
SamplerStartThreads ==
    /\ pc = "sampler"
    /\ weight_matrix' = NewWeightMatrix(input.nrow)
    /\ q' = <<>>
    /\ threads' = [w \in Workers |-> start(NewThread(NULL))]
    /\ loop' = [loop EXCEPT !.j0 = 0]
    /\ hist' = BeginPhase(hist, "sampler")
    /\ pc' = "sampler_scan"
    /\ UNCHANGED <<idxmap, pushed, entry, visited, compvars, fragvars, input, scan, indexing, locus, search,
                   multireadvars, mixvars, roundvars>>

\* sam_scan: intervals[j0++]->finish(), which is q.push(this)
SamplerScanFinish ==
    /\ pc = "sampler_scan"
    /\ loop.j0 < Len(input.loci)
    /\ CanPush(q)
    /\ q' = Append(q, loop.j0)
    /\ loop' = [loop EXCEPT !.j0 = @ + 1]
    /\ hist' = LogPush(hist, loop.j0)
    /\ UNCHANGED <<pc, Constructing, input, scan, indexing, locus, search, threads,
                   multireadvars, mixvars, roundvars>>

SamplerScanReturn ==
    /\ pc = "sampler_scan"
    /\ loop.j0 >= Len(input.loci)
    /\ loop' = [loop EXCEPT !.i = 0]
    /\ pc' = "sampler_sentinels"
    /\ UNCHANGED <<Constructing, input, scan, indexing, locus, search, q, threads, multireadvars, mixvars,
                   roundvars, hist>>

SamplerPushSentinel ==
    /\ PushSentinel(q, NULL, "sampler_sentinels", "sampler_join")
    /\ q' = Append(q, NULL)
    /\ UNCHANGED <<Constructing, input, scan, indexing, locus, search, threads,
                   multireadvars, mixvars, roundvars>>

SamplerJoin ==
    /\ JoinNext(threads, "sampler_join", "ctor_compact")
    /\ threads' = [threads EXCEPT ![loop.i] = join(@)]
    /\ UNCHANGED <<Constructing, input, scan, indexing, locus, search, q, multireadvars, mixvars, roundvars>>

InSamplerInit == pc \in {"sampler_scan", "sampler_sentinels", "sampler_join"}

\* a pop that leaves the locus in the queue
SamplerInitThreadPeek(w) ==
    /\ InSamplerInit
    /\ threads[w].st = "pop"
    /\ CanPop(q)
    /\ IF Head(q) = NULL
          THEN /\ threads' = [threads EXCEPT ![w].st = "returned"]
               /\ hist' = LogExit(hist, w)
               /\ q' = Tail(q)
          ELSE /\ threads' = [threads EXCEPT ![w].st = "work", ![w].item = Head(q)]
               /\ hist' = LogPop(hist, Head(q))
               /\ q' = q
    /\ UNCHANGED <<pc, Constructing, input, scan, indexing, locus, search, loop,
                   multireadvars, mixvars, roundvars>>

\* SamplerInitThread::run: if ((locus = q.pop()) == NULL) break;
SamplerInitThreadPop(w) ==
    /\ InSamplerInit
    /\ threads[w].st = "pop"
    /\ CanPop(q)
    /\ q' = Tail(q)
    /\ IF Head(q) = NULL
          THEN /\ threads' = [threads EXCEPT ![w].st = "returned"]
               /\ hist' = LogExit(hist, w)
          ELSE /\ threads' = [threads EXCEPT ![w].st = "work", ![w].item = Head(q)]
               /\ hist' = LogPop(hist, Head(q))
    /\ UNCHANGED <<pc, Constructing, input, scan, indexing, locus, search, loop,
                   multireadvars, mixvars, roundvars>>

min_transcript_weight == 1     \* constants::min_transcript_weight

\* SamplerInitThread::transcript_weight: a sum over the fragment lengths up to
\* the exonic length of t, weighted by frag_len_p and the sequence bias; it
\* reads no alignment.  Here 0 for a transcript of even id, 2 for the others.
transcript_weight(t) == 2 * (t % 2)

\* transcript_weights[t->id] = std::max(min_transcript_weight, transcript_weight(*t))
StoredTranscriptWeight(t) == Max2(min_transcript_weight, transcript_weight(t))

\* SamplerInitThread::run: process_locus(locus); delete locus;
SamplerInitThreadProcessLocus(w) ==
    /\ InSamplerInit
    /\ threads[w].st = "work"
    /\ LET ps == input.loci[threads[w].item + 1]
           frag_idx == input.seen[threads[w].item + 1]
       IN  /\ weight_matrix' = PushAll(weight_matrix, ps)
           /\ pushed' = LogPushes(pushed, ps)
           /\ nz_frag_counts' =
                 nz_frag_counts \o SelectSeq(frag_idx, LAMBDA f : f[2] > 1)
           /\ observed' = observed \cup
                 {[frag |-> f[1], count |-> f[2], col |-> {f[1]}] : f \in Range(frag_idx)}
           /\ multiread_frags' = multiread_frags \o LocusMultireads(ps)
    /\ threads' = [threads EXCEPT ![w].st = "pop", ![w].item = NULL]
    /\ UNCHANGED <<pc, idxmap, entry, visited, compvars, component_frag, frag_counts,
                   frag_probs, frag_probs_prop, input, scan, indexing, locus, search, q, loop,
                   num_multireads, multiread_alignments, mixvars, roundvars, hist>>

(***************************************************************************)
(* Specification SpecSort: a matrix whose row 0 holds 1 to MaxRowLen       *)
(* entries at any columns, in any order and with repetitions, and whose    *)
(* row 1 is empty, through compact() and then one or two calls of          *)
(* reorder_columns with any order of the columns.  The weight of an entry  *)
(* is the number of its push call, so each weight tells which entry it     *)
(* belongs to; idxmap holds, for each pushed column, the column the maps   *)
(* so far send it to.                                                      *)
(***************************************************************************)
\* the maps of reorder_columns: map[i] = j sends column i to column j
ColumnOrders(n) ==
    {map \in [1 .. n -> 0 .. (n - 1)] : \A a, b \in 1 .. n : a # b => map[a] # map[b]}

InitSort ==
    /\ pc = "sort_pushed"
    /\ \E n \in 1 .. MaxRowLen :
       \E idx \in [1 .. n -> Cols] :
       \E ps \in {[k \in 1 .. n |-> <<0, idx[k], k>>]} :
          /\ pushed = ps
          /\ weight_matrix = PushAll(NewWeightMatrix(2), ps)
    /\ idxmap = [c \in 1 .. (MaxCol + 1) |-> c - 1]
    /\ entry = NoIterator
    /\ visited = <<>>
    /\ NotConstructed
    /\ NotRunning

SortCompact ==
    /\ pc = "sort_pushed"
    /\ \E r \in compact(weight_matrix) :
          /\ weight_matrix' = r[1]
          /\ idxmap' = [c \in DOMAIN idxmap |->
                           IF idxmap[c] < Len(r[2]) THEN r[2][idxmap[c] + 1] ELSE 0]
    /\ pc' = "sort_compacted"
    /\ UNCHANGED <<pushed, entry, visited, compvars, fragvars, runvars>>

SortReorderColumns ==
    /\ pc \in {"sort_compacted", "sort_reordered"}
    /\ pc' = IF pc = "sort_compacted" THEN "sort_reordered" ELSE "sort_reordered_again"
    /\ \E map \in ColumnOrders(weight_matrix.ncol) :
          /\ weight_matrix' = reorder_columns(weight_matrix, map)
          /\ idxmap' = [c \in DOMAIN idxmap |-> map[idxmap[c] + 1]]
    /\ UNCHANGED <<pushed, entry, visited, compvars, fragvars, runvars>>

NextSort == SortCompact \/ SortReorderColumns

SpecSort == InitSort /\ [][NextSort]_vars

(***************************************************************************)
(* Specification SpecCount: the alignments of one read name through        *)
(* AlnCountTrie and "Index multireads" of FragmentModel::estimate.  val is *)
(* the word the trie keeps for the name, 0 when hattrie_get creates it;    *)
(* mate1 and mate2 are the alignments of each mate that sam_scan has read. *)
(***************************************************************************)
max_alignments == 2     \* constants::max_alignments

CounterSize == Pow2(CounterBits)

\* x & 0xffff
LowField(x) == x % CounterSize

\* x >> 16
ShiftedRight(x) == x \div CounterSize

\* AlnCountTrie::inc_mate1
inc_mate1(val) ==
    LET cnt == LowField(LowField(val) + 1)
    IN  (ShiftedRight(val) % CounterSize) * CounterSize + cnt

\* AlnCountTrie::inc_mate2
inc_mate2(val) ==
    LET cnt == LowField(ShiftedRight(val) + 1)
    IN  cnt * CounterSize + LowField(val)

\* AlnCountTrieIterator: x.second of the name
MateCount(val) ==
    [first |-> LowField(val), second |-> LowField(ShiftedRight(val))]

InitCount ==
    /\ pc = "estimate"
    /\ weight_matrix = NewWeightMatrix(MaxFrag)
    /\ idxmap = <<>>
    /\ pushed = <<>>
    /\ entry = NoIterator
    /\ visited = <<>>
    /\ NotConstructed
    /\ input = NoInput
    /\ scan = [st |-> "counting", val |-> 0, mate1 |-> 0, mate2 |-> 0,
               blacklist |-> FALSE, multireads |-> FALSE]
    /\ indexing = NoIndexing
    /\ search = NoSearch
    /\ locus = NoLocus
    /\ q = <<>>
    /\ threads = [w \in Workers |-> NewThread(NULL)]
    /\ loop = [i |-> 0, j0 |-> 0, r |-> 0, c |-> 0]
    /\ multiread_frags = <<>>
    /\ num_multireads = 0
    /\ multiread_alignments = <<>>
    /\ tmix = <<>>
    /\ cmix = <<>>
    /\ frag_count_sums = <<>>
    /\ cs = <<>>
    /\ sample_num = 0
    /\ component_queue = <<>>
    /\ mcmc_threads = [w \in Workers |-> NewThread(EndComponentSubset)]
    /\ multiread_queue = <<>>
    /\ multiread_threads = [w \in Workers |-> NewThread(EndMultireadBlock)]
    /\ hist = NoHistory


CountUnchanged ==
    UNCHANGED <<pc, wmvars, compvars, fragvars, input, indexing, locus, search, q,
                threads, loop, multireadvars, mixvars, roundvars, hist>>

\* sam_scan reads a mate-1 alignment of the read
CountMate1 ==
    /\ pc = "estimate"
    /\ scan.st = "counting"
    /\ scan.mate1 < MaxMate1
    /\ scan' = [scan EXCEPT !.val = inc_mate1(@), !.mate1 = @ + 1]
    /\ CountUnchanged

\* sam_scan reads a mate-2 alignment of the read (BAM_FREAD2)
CountMate2 ==
    /\ pc = "estimate"
    /\ scan.st = "counting"
    /\ scan.mate2 < MaxMate2
    /\ scan' = [scan EXCEPT !.val = inc_mate2(@), !.mate2 = @ + 1]
    /\ CountUnchanged

\* "Index multireads": the pass of the loop for the read, once it has an alignment
IndexMultireads ==
    /\ pc = "estimate"
    /\ scan.st = "counting"
    /\ scan.mate1 + scan.mate2 > 0
    /\ LET x == MateCount(scan.val)
       IN  scan' =
              IF x.first > max_alignments \/ x.second > max_alignments
              THEN [scan EXCEPT !.st = "indexed", !.blacklist = TRUE]
              ELSE IF x.first > 1 \/ x.second > 1
              THEN [scan EXCEPT !.st = "indexed", !.multireads = TRUE]
              ELSE [scan EXCEPT !.st = "indexed"]
    /\ CountUnchanged

NextCount == CountMate1 \/ CountMate2 \/ IndexMultireads

SpecCount == InitCount /\ [][NextCount]_vars

(***************************************************************************)
(* Specification SpecLocus: one call of process_locus, on a locus of       *)
(* MaxFrag transcripts and up to MaxReadSet reads.  A read is the fragment *)
(* (AlignmentPair) of its alignment in the locus, or NULL without one,     *)
(* whether fm.blacklist holds its name, and its number in fm.multireads or *)
(* -1.  fragment_weight(t, a) is computed from frag_len_p and the bias     *)
(* arrays: its values are drawn with the inputs, 0.0 where frag_len < 0.   *)
(***************************************************************************)
min_frag_weight == 0     \* constants::min_frag_weight

LocusTranscripts == [k \in 1 .. MaxFrag |-> k - 1]

\* a.frag_len(t): the fragment a lies in the transcripts from a on
frag_len(a, t) == IF a < MaxFrag /\ a <= t THEN a ELSE -1

LocusReads ==
    [frag : Frags \cup {NULL}, blacklisted : BOOLEAN, multiread_num : -1 .. 0]

\* the reads of a locus: a read name has one number in fm.multireads
LocusReadSets ==
    {rs \in UNION {[1 .. n -> LocusReads] : n \in 0 .. MaxReadSet} :
        \A m, n \in DOMAIN rs :
            m # n /\ rs[m].multiread_num >= 0 => rs[n].multiread_num # rs[m].multiread_num}

FragmentWeights ==
    {fw \in [Range(LocusTranscripts) -> [Frags -> {0, MaxWeight}]] :
        \A t \in Range(LocusTranscripts), a \in Frags :
            frag_len(a, t) < 0 => fw[t][a] = 0}

\* the elements of a set of numbers in increasing order
RECURSIVE Ascending(_)
Ascending(S) ==
    IF S = {} THEN <<>>
    ELSE LET m == CHOOSE x \in S : \A y \in S : x <= y
         IN  <<m>> \o Ascending(S \ {m})

\* #if 0 multiread_set.insert(std::make_pair(multiread_num, r->second)); #endif
Diverted(set, x) == set

\* variant: every fragment of the map is recorded
SeenOnceOrMore(f) == f.second >= 1

\* if (f->second.second > 1)
SeenMoreThanOnce(f) == f.second > 1

InitLocus ==
    /\ pc = "process_locus"
    /\ weight_matrix = NewWeightMatrix(MaxFrag)
    /\ idxmap = <<>>
    /\ pushed = <<>>
    /\ entry = NoIterator
    /\ visited = <<>>
    /\ NotConstructed
    /\ input = NoInput
    /\ scan = NoScan
    /\ indexing = NoIndexing
    /\ search = NoSearch
    /\ \E rs \in LocusReadSets, fw \in FragmentWeights, first \in 0 .. 1 :
          locus = [st |-> "read", rs |-> rs, fw |-> fw, r |-> 0, t |-> 0,
                   frag_idx |-> <<>>, excluded_frags |-> {},
                   multiread_set |-> {}, multiread_entries |-> <<>>,
                   first |-> first, next |-> first,
                   transcript_weights |-> [t \in Range(LocusTranscripts) |-> Uninit]]
    /\ q = <<>>
    /\ threads = [w \in Workers |-> NewThread(NULL)]
    /\ loop = [i |-> 0, j0 |-> 0, r |-> 0, c |-> 0]
    /\ multiread_frags = <<>>
    /\ num_multireads = 0
    /\ multiread_alignments = <<>>
    /\ tmix = <<>>
    /\ cmix = <<>>
    /\ frag_count_sums = <<>>
    /\ cs = <<>>
    /\ sample_num = 0
    /\ component_queue = <<>>
    /\ mcmc_threads = [w \in Workers |-> NewThread(EndComponentSubset)]
    /\ multiread_queue = <<>>
    /\ multiread_threads = [w \in Workers |-> NewThread(EndMultireadBlock)]
    /\ hist = NoHistory

LocusUnchanged ==
    UNCHANGED <<pc, idxmap, entry, visited, compvars, observed, component_frag,
                frag_counts, frag_probs, frag_probs_prop, input, scan, indexing, search, q,
                threads, loop, num_multireads, multiread_alignments, mixvars,
                roundvars, hist>>

\* one pass of "for (ReadSetIterator r(locus->rs); r != ReadSetIterator(); ++r)",
\* or the end of the loop
LocusRead ==
    /\ pc = "process_locus"
    /\ locus.st = "read"
    /\ locus' =
          IF locus.r >= Len(locus.rs) THEN [locus EXCEPT !.st = "counts"]
          ELSE LET rd == locus.rs[locus.r + 1]
                   a == rd.frag
                   l == [locus EXCEPT !.r = @ + 1]
               IN  IF rd.blacklisted THEN l
                   ELSE IF rd.multiread_num >= 0
                   THEN [l EXCEPT !.multiread_set =
                            Diverted(@, <<rd.multiread_num, locus.r + 1>>)]
                   ELSE IF a = NULL THEN l
                   ELSE IF a \in l.excluded_frags THEN l
                   ELSE IF a \in DOMAIN l.frag_idx
                   THEN [l EXCEPT !.frag_idx[a].second = @ + 1]
                   ELSE IF \E k \in DOMAIN LocusTranscripts :
                              frag_len(a, LocusTranscripts[k]) >= 0
                   THEN [l EXCEPT !.next = @ + 1,
                                  !.frag_idx =
                                      [x \in DOMAIN l.frag_idx \cup {a} |->
                                          IF x = a THEN [first |-> l.next, second |-> 1]
                                          ELSE l.frag_idx[x]]]
                   ELSE [l EXCEPT !.excluded_frags = @ \cup {a}]
    /\ UNCHANGED <<weight_matrix, pushed, nz_frag_counts, multiread_frags>>
    /\ LocusUnchanged

\* for (f = frag_idx.begin(); ...) if (f->second.second > 1) frag_counts.push_back(f->second)
LocusCounts ==
    /\ pc = "process_locus"
    /\ locus.st = "counts"
    /\ LET fs == Ascending(DOMAIN locus.frag_idx)
           all == [k \in DOMAIN fs |->
                      <<locus.frag_idx[fs[k]].first, locus.frag_idx[fs[k]].second>>]
       IN  nz_frag_counts' =
              nz_frag_counts \o
                  SelectSeq(all, LAMBDA e : SeenMoreThanOnce([first |-> e[1], second |-> e[2]]))
    /\ locus' = [locus EXCEPT !.st = "transcripts"]
    /\ UNCHANGED <<weight_matrix, pushed, multiread_frags>>
    /\ LocusUnchanged

\* the entries of transcript t for the alignments of the reads of the set
MultireadEntriesOf(t, set, rs, fw) ==
    LET reads == Ascending({x[2] : x \in set})
        with == SelectSeq(reads, LAMBDA r : rs[r].frag # NULL
                                            /\ fw[t][rs[r].frag] > min_frag_weight)
    IN  [k \in DOMAIN with |->
            [multiread_num |-> rs[with[k]].multiread_num, transcript_idx |-> t,
             frag_weight |-> fw[t][rs[with[k]].frag], align_pr |-> 1]]

\* the pushes of transcript t for the fragments of frag_idx, in the order of the map
LocusPushes(t, fidx, fw, tw) ==
    LET fs == SelectSeq(Ascending(DOMAIN fidx), LAMBDA a : fw[t][a] > min_frag_weight)
    IN  [k \in DOMAIN fs |-> <<t, fidx[fs[k]].first, FloatDiv(fw[t][fs[k]], tw)>>]

\* one pass of "for (t = locus->ts.begin(); ...)", or the end of the loop
LocusTranscript ==
    /\ pc = "process_locus"
    /\ locus.st = "transcripts"
    /\ IF locus.t >= Len(LocusTranscripts)
       THEN /\ locus' = [locus EXCEPT !.st = "multireads"]
            /\ UNCHANGED <<weight_matrix, pushed>>
       ELSE \E t \in {LocusTranscripts[locus.t + 1]} :
            \E tw \in {StoredTranscriptWeight(t)} :
            \E ps \in {LocusPushes(t, locus.frag_idx, locus.fw, tw)} :
               /\ locus' = [locus EXCEPT
                               !.t = @ + 1,
                               !.transcript_weights[t] = tw,
                               !.multiread_entries =
                                   @ \o MultireadEntriesOf(t, locus.multiread_set,
                                                           locus.rs, locus.fw)]
               /\ weight_matrix' = PushAll(weight_matrix, ps)
               /\ pushed' = pushed \o ps
    /\ UNCHANGED <<nz_frag_counts, multiread_frags>>
    /\ LocusUnchanged

\* "Process multiread entries into weight matrix entries": the multireads in
\* the order of std::sort, each with the sum of its weights per transcript
MultireadGroups(es) ==
    LET nums == Ascending({es[k].multiread_num : k \in DOMAIN es})
    IN  [g \in DOMAIN nums |->
            [multiread_num |-> nums[g],
             w |-> [t \in Range(LocusTranscripts) |->
                       SumSeq([k \in DOMAIN es |->
                                  IF es[k].multiread_num = nums[g]
                                        /\ es[k].transcript_idx = t
                                  THEN es[k].frag_weight * es[k].align_pr ELSE 0])]]]

\* if (sum_weight == 0.0) continue;
Weighted(gs) ==
    SelectSeq(gs, LAMBDA g : \E t \in Range(LocusTranscripts) : g.w[t] # 0)

\* weight_matrix.push(j0->transcript_idx, frag_idx, w) for w > min_frag_weight
MultireadPushes(gs, next) ==
    LET one(g) == LET ts == SelectSeq(LocusTranscripts,
                                      LAMBDA t : gs[g].w[t] > min_frag_weight)
                  IN  [k \in DOMAIN ts |-> <<ts[k], next + g - 1, Float(gs[g].w[ts[k]])>>]
        RECURSIVE upto(_)
        upto(g) == IF g = 0 THEN <<>> ELSE upto(g - 1) \o one(g)
    IN  upto(Len(gs))

LocusMultireadEntries ==
    /\ pc = "process_locus"
    /\ locus.st = "multireads"
    /\ \E gs \in {Weighted(MultireadGroups(locus.multiread_entries))} :
       \E ps \in {MultireadPushes(gs, locus.next)} :
          /\ multiread_frags' =
                multiread_frags \o
                    [g \in DOMAIN gs |-> <<gs[g].multiread_num, locus.next + g - 1>>]
          /\ weight_matrix' = PushAll(weight_matrix, ps)
          /\ pushed' = pushed \o ps
          /\ locus' = [locus EXCEPT !.next = @ + Len(gs), !.st = "done"]
    /\ UNCHANGED nz_frag_counts
    /\ LocusUnchanged

NextLocus == LocusRead \/ LocusCounts \/ LocusTranscript \/ LocusMultireadEntries

SpecLocus == InitLocus /\ [][NextLocus]_vars

(***************************************************************************)
(* Specification SpecBias: the calls of transcript_sequence_bias by one    *)
(* SamplerInitThread, whose four bias arrays outlive the call.  A bias is  *)
(* a multiple of 1.0; the bias model fm.sb is absent or gives the mate-1   *)
(* and mate-2 bias at every position of the two sequences of a transcript: *)
(* tseq0 and the reverse complement tseq1.                                 *)
(***************************************************************************)
BiasTranscripts == {0, 1}

exonic_length(t) == t + 1

BiasTable ==
    [{1, 2} \X BiasTranscripts \X {0, 1} \X (0 .. 1) -> {1, 2}]

\* fm.sb: NULL, or the values of get_mate1_bias and get_mate2_bias
SeqBiasModels ==
    {[null |-> TRUE, bias |-> [x \in {1, 2} \X BiasTranscripts \X {0, 1} \X (0 .. 1) |-> 1]]}
        \cup {[null |-> FALSE, bias |-> b] : b \in BiasTable}

get_mate1_bias(sb, t, strand, pos) == sb.bias[<<1, t, strand, pos>>]

get_mate2_bias(sb, t, strand, pos) == sb.bias[<<2, t, strand, pos>>]

\* v.resize(n) of a vector shorter than n: the new elements are 0.0
Resized(v, n) == [k \in 1 .. n |-> IF k <= Len(v) THEN v[k] ELSE 0]

\* std::fill(v.begin(), v.begin() + n, x)
Filled(v, n, x) == [k \in DOMAIN v |-> IF k <= n THEN x ELSE v[k]]

\* std::reverse(v.begin(), v.begin() + n)
Reversed(v, n) == [k \in DOMAIN v |-> IF k <= n THEN v[n + 1 - k] ELSE v[k]]

\* the loop "for (pos_t pos = 0; pos < tlen; ++pos)" on the arrays of strand s:
\* the second assignment to mate1_seqbias[s][pos] is the one that stays
BiasLoop(sb, t, tlen, m1, m2) ==
    [mate1 |-> [s \in 1 .. 2 |->
                   [k \in DOMAIN m1[s] |->
                       IF k <= tlen THEN get_mate2_bias(sb, t, s - 1, k - 1)
                       ELSE m1[s][k]]],
     mate2 |-> m2]

\* transcript_sequence_bias(locus, t), seq telling whether locus.seq is set
transcript_sequence_bias(l, t, seq) ==
    LET tlen == exonic_length(t)
        grow == tlen > Len(l.mate1_seqbias[1])
        m1 == IF grow THEN [s \in 1 .. 2 |-> Resized(l.mate1_seqbias[s], tlen)]
              ELSE l.mate1_seqbias
        m2 == IF grow THEN [s \in 1 .. 2 |-> Resized(l.mate2_seqbias[s], tlen)]
              ELSE l.mate2_seqbias
        lp == BiasLoop(l.sb, t, tlen, m1, m2)
    IN  IF l.sb.null \/ ~seq
        THEN [l EXCEPT !.mate1_seqbias = [s \in 1 .. 2 |-> Filled(m1[s], tlen, 1)],
                       !.mate2_seqbias = [s \in 1 .. 2 |-> Filled(m2[s], tlen, 1)]]
        ELSE [l EXCEPT !.mate1_seqbias = <<lp.mate1[1], Reversed(lp.mate1[2], tlen)>>,
                       !.mate2_seqbias = <<lp.mate2[1], Reversed(lp.mate2[2], tlen)>>]

InitBias ==
    /\ pc = "transcript_sequence_bias"
    /\ weight_matrix = NewWeightMatrix(MaxFrag)
    /\ idxmap = <<>>
    /\ pushed = <<>>
    /\ entry = NoIterator
    /\ visited = <<>>
    /\ NotConstructed
    /\ input = NoInput
    /\ scan = NoScan
    /\ indexing = NoIndexing
    /\ search = NoSearch
    /\ \E sb \in SeqBiasModels :
          locus = [st |-> "bias", sb |-> sb, t |-> NULL, seq |-> FALSE, calls |-> 0,
                   mate1_seqbias |-> <<<<>>, <<>>>>,
                   mate2_seqbias |-> <<<<>>, <<>>>>]
    /\ q = <<>>
    /\ threads = [w \in Workers |-> NewThread(NULL)]
    /\ loop = [i |-> 0, j0 |-> 0, r |-> 0, c |-> 0]
    /\ multiread_frags = <<>>
    /\ num_multireads = 0
    /\ multiread_alignments = <<>>
    /\ tmix = <<>>
    /\ cmix = <<>>
    /\ frag_count_sums = <<>>
    /\ cs = <<>>
    /\ sample_num = 0
    /\ component_queue = <<>>
    /\ mcmc_threads = [w \in Workers |-> NewThread(EndComponentSubset)]
    /\ multiread_queue = <<>>
    /\ multiread_threads = [w \in Workers |-> NewThread(EndMultireadBlock)]
    /\ hist = NoHistory


TranscriptSequenceBias ==
    /\ pc = "transcript_sequence_bias"
    /\ locus.calls < MaxBiasCalls
    /\ \E t \in BiasTranscripts, seq \in BOOLEAN :
          locus' = [transcript_sequence_bias(locus, t, seq) EXCEPT
                       !.t = t, !.seq = seq, !.calls = @ + 1]
    /\ UNCHANGED <<weight_matrix, pushed, nz_frag_counts, multiread_frags>>
    /\ LocusUnchanged

NextBias == TranscriptSequenceBias

SpecBias == InitBias /\ [][NextBias]_vars

(***************************************************************************)
(* Specification SpecSearch: one call of transcript_slice_sample_search.   *)
(* z is a multiple of 1/SearchGrid, xmin is 0 and xmax is SearchGrid units;*)
(* a float result is rounded to the nearest such z.  The objective, the    *)
(* value of recompute_component_probability at z less slice_height, is an  *)
(* integer or minus infinity (the logarithm of a zero probability); it is  *)
(* not below 0 at z0 and changes its sign once, between r - 1 and r when   *)
(* searching to the left and between r and r + 1 when searching to the     *)
(* right.  NaN is what the arithmetic gives on infinite operands.          *)
(***************************************************************************)
xeps == 1      \* static const float xeps: one unit of z
leps == 0      \* static const float leps

delta == xeps

xmin == 0 * SearchGrid

xmax == SearchGrid

NegInf == 0 - MaxFloat * MaxFloat

NaN == MaxFloat * MaxFloat + 1

IsFinite(x) == x # NegInf /\ x # NaN

SearchKinds == {"linear", "square", "cliff", "step"}

\* recompute_component_probability(u, v, s * tmixuv, (1.0 - s) * tmixuv) - slice_height
Objective(sr, x) ==
    IF x = NaN THEN NaN
    ELSE LET v == IF sr.left THEN 2 * (x - sr.r) + 1 ELSE 2 * (sr.r - x) + 1
         IN  CASE sr.kind = "linear" -> v
               [] sr.kind = "square" -> v * Abs(v)
               [] sr.kind = "cliff"  -> IF v < 0 THEN NegInf ELSE v
               [] sr.kind = "step"   -> IF v < 0 THEN -1 ELSE v

\* a / b rounded to a multiple of the unit, for b # 0
Quot(a, b) == IF b < 0 THEN RoundDiv(-a, -b) ELSE RoundDiv(a, b)

\* lowp * sL < 0.0
ProductIsNegative(a, b) ==
    /\ a # NaN /\ b # NaN
    /\ (a < 0 /\ b > 0) \/ (a > 0 /\ b < 0)

\* abs(a) < abs(b)
AbsIsLess(a, b) == a # NaN /\ b # NaN /\ Abs(a) < Abs(b)

\* if (abs(lowp) < abs(highp)) { std::swap(low, high); std::swap(lowp, highp); }
Swapped(sr) ==
    IF AbsIsLess(sr.lowp, sr.highp)
    THEN [sr EXCEPT !.low = sr.high, !.high = sr.low, !.lowp = sr.highp, !.highp = sr.lowp]
    ELSE sr

\* the condition of the while loop
SearchContinues(sr) ==
    /\ sr.low # NaN
    /\ Abs(sr.high - sr.low) > xeps
    /\ sr.lowp # NaN /\ Abs(sr.lowp) > leps
    /\ sr.highp # NaN /\ Abs(sr.highp) > leps

\* s = (high + low) / 2.0
Bisection(sr) == RoundDiv(sr.high + sr.low, 2)

\* inverse quadratic interpolation: NaN when cL is infinite
Interpolation(sr) ==
    IF ~IsFinite(sr.cL) THEN NaN
    ELSE Quot(sr.low * sr.highp * sr.cL, (sr.lowp - sr.highp) * (sr.lowp - sr.cL))
         + Quot(sr.high * sr.lowp * sr.cL, (sr.highp - sr.lowp) * (sr.highp - sr.cL))
         + Quot(sr.c * sr.lowp * sr.highp, (sr.cL - sr.lowp) * (sr.cL - sr.highp))

\* secant rule: s = high - highp * (high - low) / (highp - lowp)
Secant(sr) == sr.high - Quot(sr.highp * (sr.high - sr.low), sr.highp - sr.lowp)

\* cond 1 to cond 5 for the s of the interpolation or of the secant rule
FallsBackToBisection(sr, s) ==
    /\ s # NaN
    /\ \/ 4 * s < 3 * sr.low + sr.high \/ s > sr.high
       \/ sr.mflag /\ 2 * Abs(s - sr.high) >= Abs(sr.high - sr.c)
       \/ ~sr.mflag /\ 2 * Abs(s - sr.high) >= Abs(sr.c - sr.d)
       \/ sr.mflag /\ Abs(sr.high - sr.c) < delta
       \/ ~sr.mflag /\ Abs(sr.c - sr.d) < delta

\* slice_sample_search_test: mflag = false;
ResetAtTest(mflag) == FALSE

\* the body of the while loop from the label on, s and the kind of step chosen
SearchTest(sr, s, step, mflag) ==
    LET sL == Objective(sr, s)
        s1 == [sr EXCEPT !.s = s, !.step = step, !.mflag = ResetAtTest(mflag),
                         !.d = sr.c, !.c = sr.high, !.cL = sr.highp]
        s2 == IF ProductIsNegative(sr.lowp, sL)
              THEN [s1 EXCEPT !.high = s, !.highp = sL]
              ELSE [s1 EXCEPT !.low = s, !.lowp = sL]
    IN  Swapped(s2)

InitSearch ==
    /\ pc = "transcript_slice_sample_search"
    /\ weight_matrix = NewWeightMatrix(MaxFrag)
    /\ idxmap = <<>>
    /\ pushed = <<>>
    /\ entry = NoIterator
    /\ visited = <<>>
    /\ NotConstructed
    /\ input = NoInput
    /\ scan = NoScan
    /\ indexing = NoIndexing
    /\ locus = NoLocus
    /\ \E left \in BOOLEAN, kind \in SearchKinds, r \in 0 .. SearchGrid, z0 \in 0 .. SearchGrid :
          /\ IF left THEN r <= z0 ELSE z0 <= r
          /\ search = [st |-> "entry", left |-> left, kind |-> kind, r |-> r, z0 |-> z0,
                       low |-> 0, high |-> 0, lowp |-> 0, highp |-> 0,
                       c |-> 0, d |-> 0, cL |-> 0, s |-> 0,
                       mflag |-> FALSE, step |-> "none", result |-> NULL]
    /\ q = <<>>
    /\ threads = [w \in Workers |-> NewThread(NULL)]
    /\ loop = [i |-> 0, j0 |-> 0, r |-> 0, c |-> 0]
    /\ multiread_frags = <<>>
    /\ num_multireads = 0
    /\ multiread_alignments = <<>>
    /\ tmix = <<>>
    /\ cmix = <<>>
    /\ frag_count_sums = <<>>
    /\ cs = <<>>
    /\ sample_num = 0
    /\ component_queue = <<>>
    /\ mcmc_threads = [w \in Workers |-> NewThread(EndComponentSubset)]
    /\ multiread_queue = <<>>
    /\ multiread_threads = [w \in Workers |-> NewThread(EndMultireadBlock)]
    /\ hist = NoHistory


SearchUnchanged ==
    UNCHANGED <<pc, wmvars, compvars, fragvars, input, scan, indexing, locus, q,
                threads, loop, multireadvars, mixvars, roundvars, hist>>

\* from the entry of the function to the first test of the while loop
SearchEnter ==
    /\ pc = "transcript_slice_sample_search"
    /\ search.st = "entry"
    /\ LET low   == IF search.left THEN xmin ELSE search.z0
           high  == IF search.left THEN search.z0 ELSE xmax
           lowp  == Objective(search, low)
           highp == Objective(search, high)
       IN  search' =
              IF search.left /\ lowp >= 0
              THEN [search EXCEPT !.st = "returned", !.result = low]
              ELSE IF ~search.left /\ highp >= 0
              THEN [search EXCEPT !.st = "returned", !.result = high]
              ELSE LET sw == Swapped([search EXCEPT !.low = low, !.high = high,
                                                    !.lowp = lowp, !.highp = highp])
                   IN  [sw EXCEPT !.st = "loop", !.mflag = TRUE, !.s = sw.high,
                                  !.d = 0, !.c = sw.low, !.cL = sw.lowp]
    /\ SearchUnchanged

\* one iteration of the while loop
SearchStep ==
    /\ pc = "transcript_slice_sample_search"
    /\ search.st = "loop"
    /\ SearchContinues(search)
    /\ search' =
          IF ~IsFinite(search.lowp) \/ ~IsFinite(search.highp)
          THEN SearchTest(search, Bisection(search), "bisection", search.mflag)
          ELSE LET interpolates == search.lowp # search.cL /\ search.highp # search.cL
                   s == IF interpolates THEN Interpolation(search) ELSE Secant(search)
               IN  IF FallsBackToBisection(search, s)
                   THEN SearchTest(search, Bisection(search), "bisection", TRUE)
                   ELSE SearchTest(search, s,
                                   IF interpolates THEN "interpolation" ELSE "secant",
                                   search.mflag)
    /\ SearchUnchanged

\* return std::min(xmax, std::max(xmin, s))
SearchReturn ==
    /\ pc = "transcript_slice_sample_search"
    /\ search.st = "loop"
    /\ ~SearchContinues(search)
    /\ search' = [search EXCEPT
                     !.st = "returned",
                     !.result = IF search.s = NaN THEN xmin
                                ELSE Min2(xmax, Max2(xmin, search.s))]
    /\ SearchUnchanged

NextSearch == SearchEnter \/ SearchStep \/ SearchReturn

SpecSearch == InitSearch /\ [][NextSearch]_vars

(***************************************************************************)
(* Sampler::Sampler, "Update multiread fragment indexes" and "Build        *)
(* multiread array".  An alignment record holds two pointers, into         *)
(* frag_probs[c] and frag_counts[c]: the component c and the offset.       *)
(***************************************************************************)
RemappedMultireadFrags(mfs, map) ==
    SortPairs([k \in DOMAIN mfs |-> <<mfs[k][1], map[mfs[k][2] + 1]>>])

NumMultireads(mfs) ==
    Cardinality({k \in DOMAIN mfs : k = 1 \/ mfs[k][1] # mfs[k - 1][1]})

\* the index j of the multiread that entry k (1-based) of the sorted list belongs to
MultireadOf(mfs, k) == NumMultireads(SubSeq(mfs, 1, k)) - 1

MultireadAlignment(d, cf, f) ==
    [c |-> d[f + 1], at |-> f - cf[d[f + 1] + 1]]

MultireadAlignments(mfs, d, cf) ==
    [j \in 0 .. (NumMultireads(mfs) - 1) |->
        LET ks == SelectSeq([k \in DOMAIN mfs |-> k],
                            LAMBDA k : MultireadOf(mfs, k) = j)
        IN  [a \in DOMAIN ks |-> MultireadAlignment(d, cf, mfs[ks[a]][2])]]

CtorBuildMultireads ==
    /\ pc = "constructed"
    /\ LET mfs == RemappedMultireadFrags(multiread_frags, idxmap)
       IN  /\ multiread_frags' = mfs
           /\ num_multireads' = NumMultireads(mfs)
           /\ multiread_alignments' = MultireadAlignments(mfs, ds, component_frag)
    /\ frag_count_sums' = [c \in 0 .. (num_components - 1) |-> Uninit]
    /\ tmix' = [t \in 0 .. (weight_matrix.nrow - 1) |-> Uninit]
    /\ cmix' = [c \in 0 .. (num_components - 1) |-> Uninit]
    /\ pc' = "run"
    /\ UNCHANGED <<Constructing, poolvars, roundvars, hist>>

(***************************************************************************)
(* Sampler::init_frag_probs                                                *)
(***************************************************************************)
RECURSIVE AddRows(_, _, _, _, _, _)
AddRows(fp, wm, cf, tc, tm, t) ==
    \* fp after the rows 0 .. t-1 have been added
    IF t = 0 THEN fp
    ELSE LET done == AddRows(fp, wm, cf, tc, tm, t - 1)
             c == tc[t - 1]
         IN  [done EXCEPT ![c] = asxpy(@, wm.rows[t - 1], Float(tm[t - 1]),
                                       wm.idxs[t - 1], cf[c + 1], wm.rowlens[t - 1])]

init_frag_probs(fp, wm, cf, tc, tm) ==
    AddRows([c \in DOMAIN fp |-> [k \in DOMAIN fp[c] |-> 0]], wm, cf, tc, tm, wm.nrow)

\* what the float operations of one asxpy call round away, added to es: ce is
\* the rounding of the coefficient cc, and every store rounds its sum
RECURSIVE RoundingOfAsxpy(_, _, _, _, _, _, _, _)
RoundingOfAsxpy(es, ys, xs, cc, ce, idx, off, n) ==
    IF n = 0 THEN es
    ELSE LET at == idx[n] - off + 1
             done == RoundingOfAsxpy(es, ys, xs, cc, ce, idx, off, n - 1)
             sofar == asxpy(ys, xs, cc, idx, off, n - 1)
             sum == sofar[at] + cc * xs[n]
         IN  [done EXCEPT ![at] = @ + ce * xs[n] + Abs(Float(sum) - sum)]

\* the rounding of init_frag_probs, row by row
RECURSIVE RoundingOfRows(_, _, _, _, _, _)
RoundingOfRows(fp, wm, cf, tc, tm, t) ==
    IF t = 0 THEN [c \in DOMAIN fp |-> [k \in DOMAIN fp[c] |-> 0]]
    ELSE LET done == RoundingOfRows(fp, wm, cf, tc, tm, t - 1)
             sofar == AddRows([c \in DOMAIN fp |-> [k \in DOMAIN fp[c] |-> 0]],
                              wm, cf, tc, tm, t - 1)
             c == tc[t - 1]
         IN  [done EXCEPT ![c] =
                 RoundingOfAsxpy(@, sofar[c], wm.rows[t - 1], Float(tm[t - 1]),
                                 Abs(Float(tm[t - 1]) - tm[t - 1]),
                                 wm.idxs[t - 1], cf[c + 1], wm.rowlens[t - 1])]

(***************************************************************************)
(* MCMCThread::run_inter_transcript.  transcript_slice_sample_search       *)
(* returns a value clamped to [xmin, xmax], so z lies in [0, 1] on either  *)
(* branch.  The search to the right evaluates the proposal z = xmax, which *)
(* recompute_component_probability leaves in frag_probs_prop.              *)
(***************************************************************************)
zero_eps == 1      \* constants::zero_eps: below it, a sum of two tmix is 0 units

UniformDraws == 0 .. (ZGrid - 1)     \* gsl_rng_uniform is in [0, 1)

SliceDraws == 0 .. ZGrid

\* a proposal that scales both by z
ProposedTmixBothZ(tm, u, v, zn) ==
    <<FloatDiv(zn * (tm[u] + tm[v]), ZGrid),
      FloatDiv(zn * (tm[u] + tm[v]), ZGrid)>>

\* float tmixu = z * (tmix[u] + tmix[v]), tmixv = (1.0 - z) * (tmix[u] + tmix[v]),
\* for z = zn / ZGrid
ProposedTmix(tm, u, v, zn) ==
    <<FloatDiv(zn * (tm[u] + tm[v]), ZGrid),
      FloatDiv((ZGrid - zn) * (tm[u] + tm[v]), ZGrid)>>

\* float tmix_delta_u = tmixu - S.tmix[u], and tmix_delta_v
Deltas(tm, u, v, p) == <<Float(p[1] - tm[u]), Float(p[2] - tm[v])>>

\* the first asxpy call only: fpc with the row of u added
MovedProbsOfU(fpc, wm, cf, c, u, v, d) ==
    asxpy(fpc, wm.rows[u], d[1], wm.idxs[u], cf[c + 1], wm.rowlens[u])

\* the two asxpy calls: fpc with the rows of u and v added, scaled by d
MovedProbs(fpc, wm, cf, c, u, v, d) ==
    asxpy(asxpy(fpc, wm.rows[u], d[1], wm.idxs[u], cf[c + 1], wm.rowlens[u]),
          wm.rows[v], d[2], wm.idxs[v], cf[c + 1], wm.rowlens[v])

\* what the two asxpy calls round away, the exact deltas being p - tm
RoundingOfMove(es, fpc, wm, cf, c, u, v, tm, p, d) ==
    LET moved == asxpy(fpc, wm.rows[u], d[1], wm.idxs[u], cf[c + 1], wm.rowlens[u])
        first == RoundingOfAsxpy(es, fpc, wm.rows[u], d[1],
                                 Abs(d[1] - (p[1] - tm[u])),
                                 wm.idxs[u], cf[c + 1], wm.rowlens[u])
    IN  RoundingOfAsxpy(first, moved, wm.rows[v], d[2],
                        Abs(d[2] - (p[2] - tm[v])),
                        wm.idxs[v], cf[c + 1], wm.rowlens[v])

\* frag_probs_prop[c] after acopy and the two asxpy calls, d being
\* <<tmixu - tmix[u], tmixv - tmix[v]>> as floats
recompute_component_probability(fpc, wm, cf, c, u, v, d) ==
    MovedProbs(fpc, wm, cf, c, u, v, d)

\* variant: only S.tmix[u] = tmixu
UpdatedTmixOfU(tm, u, v, p) == [tm EXCEPT ![u] = p[1]]

\* S.tmix[u] = tmixu; S.tmix[v] = tmixv;
UpdatedTmix(tm, u, v, p) == [tm EXCEPT ![u] = p[1], ![v] = p[2]]

\* variant: no pair is skipped
SkipsPairNever(tm, u, v) == FALSE

\* if (S.tmix[u] + S.tmix[v] < constants::zero_eps) return;
SkipsPair(tm, u, v) == tm[u] + tm[v] < zero_eps

\* variant: the boundaries are searched whatever the slice height is
SliceSearchesAlways(finite) == <<"search_left", "search_right">>

\* if (finite(slice_height)) { s0 = search(..., true); s1 = search(..., false); }
SliceSearches(finite) ==
    IF finite THEN <<"search_left", "search_right">> ELSE <<>>

\* history: the calls run_inter_transcript(u, v) makes, in their order:
\* gsl_rng_uniform for the slice height, the division z0 = tmix[u] / (tmix[u]
\* + tmix[v]), the boundary searches, gsl_rng_uniform for z
InterCall(tm, u, v, finite) ==
    [u |-> u, v |-> v, finite |-> finite,
     calls |-> IF SkipsPair(tm, u, v) THEN <<>>
               ELSE <<"uniform", "divide">> \o SliceSearches(finite) \o <<"uniform">>]

run_inter_transcript(u, v, zn, finite) ==
    LET c == transcript_component[u]
        wm == weight_matrix
    IN  IF SkipsPair(tmix, u, v)
        THEN UNCHANGED <<tmix, frag_probs, frag_probs_prop>>
        ELSE \E p \in {ProposedTmix(tmix, u, v, zn)},
                pmax \in {ProposedTmix(tmix, u, v, ZGrid)} :
             \E d \in {Deltas(tmix, u, v, p)}, dmax \in {Deltas(tmix, u, v, pmax)} :
                /\ tmix' = UpdatedTmix(tmix, u, v, p)
                /\ frag_probs' =
                      [frag_probs EXCEPT ![c] =
                          MovedProbs(@, wm, component_frag, c, u, v, d)]
                /\ frag_probs_prop' =
                      IF finite
                      THEN [frag_probs_prop EXCEPT ![c] =
                               recompute_component_probability(
                                   frag_probs[c], wm, component_frag, c, u, v, dmax)]
                      ELSE frag_probs_prop

(***************************************************************************)
(* MCMCThread::run_component: a gamma variate is positive; the model draws *)
(* it from 1 .. MaxGamma units for a component that holds fragments and    *)
(* takes one unit for a component that holds none.                         *)
(***************************************************************************)
tmix_prior_prec == 1     \* constants::tmix_prior_prec, in units of a fragment count

\* float prec = frag_count_sums[u] + component_num_transcripts[u] * tmix_prior_prec
prec(c) == frag_count_sums[c] + component_num_transcripts[c] * tmix_prior_prec

GammaDraws(c) == IF frag_count_sums[c] > 0 THEN 1 .. MaxGamma ELSE {1}

(***************************************************************************)
(* MultireadSamplerThread::run, the body of the loop over block.u          *)
(***************************************************************************)
ProbOf(fp, a) == fp[a.c][a.at + 1]

\* float sumprob = 0.0; sumprob += *prob, over the first n alignments
RECURSIVE SumProb(_, _, _)
SumProb(fp, as, n) ==
    IF n = 0 THEN 0 ELSE Float(SumProb(fp, as, n - 1) + ProbOf(fp, as[n]))

\* the index i at which the second loop stops, started at i with r
RECURSIVE ChosenFrom(_, _, _, _)
ChosenFrom(fp, as, i, r) ==
    IF i >= Len(as) THEN i
    ELSE IF r <= ProbOf(fp, as[i + 1]) THEN i
    ELSE ChosenFrom(fp, as, i + 1, Float(r - ProbOf(fp, as[i + 1])))

\* *count = v for the alignments in the set of (1-based) positions at
RECURSIVE SetCounts(_, _, _, _)
SetCounts(fc, as, at, v) ==
    IF at = {} THEN fc
    ELSE LET n == CHOOSE x \in at : TRUE
             a == as[n]
         IN  SetCounts([fc EXCEPT ![a.c][a.at + 1] = v], as, at \ {n}, v)

\* the first loop: *count = 0 for every alignment
CountsNotCleared(fc, as) == fc

ClearedCounts(fc, as) == SetCounts(fc, as, DOMAIN as, 0)

\* float r = sumprob * gsl_rng_uniform(rng): a float between 0 and sumprob,
\* sumprob included, which the product rounds to when the variate is near 1
ScaledDraws(sumprob) ==
    {r \in Min2(0, sumprob) .. Max2(0, sumprob) : Float(r) = r}

\* frag_counts after a multiread with the alignments as is resolved with r
Resolved(fc, fp, as, r) ==
    LET k == Len(as)
        i == Min2(ChosenFrom(fp, as, 0, r), k - 1)
    IN  SetCounts(ClearedCounts(fc, as), as, {i + 1}, 1)

(***************************************************************************)
(* Specification SpecResolve: one pass of the loop of                      *)
(* MultireadSamplerThread::run over one multiread of 1 to MaxAlignments    *)
(* alignments, each with a probability of 0 to MaxWeight units in          *)
(* frag_probs and the count the round before left in frag_counts.          *)
(***************************************************************************)
InitResolve ==
    /\ pc = "resolve"
    /\ weight_matrix = NewWeightMatrix(NRow)
    /\ idxmap = <<>>
    /\ pushed = <<>>
    /\ entry = NoIterator
    /\ visited = <<>>
    /\ ds = <<>>
    /\ num_components = 1
    /\ transcript_component = <<>>
    /\ component_num_transcripts = <<>>
    /\ component_transcripts = <<>>
    /\ nz_frag_counts = <<>>
    /\ observed = {}
    /\ component_frag = <<0>>
    /\ frag_probs_prop = <<>>
    /\ \E k \in 1 .. MaxAlignments :
       \E probs \in [1 .. k -> 0 .. MaxWeight], one \in 0 .. k :
          /\ frag_probs = <<probs>>
          /\ frag_counts = <<[a \in 1 .. k |-> IF a = one THEN 1 ELSE 0]>>
          /\ multiread_alignments = [m \in {0} |-> [a \in 1 .. k |-> [c |-> 1, at |-> a - 1]]]
    /\ input = NoInput
    /\ scan = NoScan
    /\ indexing = NoIndexing
    /\ locus = NoLocus
    /\ search = NoSearch
    /\ q = <<>>
    /\ threads = [w \in Workers |-> NewThread(NULL)]
    /\ loop = [i |-> 0, j0 |-> 0, r |-> 0, c |-> 0]
    /\ multiread_frags = <<>>
    /\ num_multireads = 1
    /\ tmix = <<>>
    /\ cmix = <<>>
    /\ frag_count_sums = <<>>
    /\ cs = <<>>
    /\ sample_num = 0
    /\ component_queue = <<>>
    /\ mcmc_threads = [w \in Workers |-> NewThread(EndComponentSubset)]
    /\ multiread_queue = <<>>
    /\ multiread_threads = [w \in Workers |-> NewThread(EndMultireadBlock)]
    /\ hist = NoHistory

\* the pass for block.u = 0, with every value of the draw
ResolveMultiread ==
    /\ pc = "resolve"
    /\ \E as \in {multiread_alignments[0]} :
       \E r \in ScaledDraws(SumProb(frag_probs, as, Len(as))) :
          /\ frag_counts' = Resolved(frag_counts, frag_probs, as, r)
          /\ hist' = [hist EXCEPT
                         !.resolved = <<r>>,
                         !.clamped = IF ChosenFrom(frag_probs, as, 0, r) >= Len(as)
                                     THEN {0} ELSE {}]
    /\ pc' = "resolved"
    /\ UNCHANGED <<wmvars, compvars, nz_frag_counts, observed, component_frag, frag_probs,
                   frag_probs_prop, poolvars, multireadvars, mixvars, roundvars>>

NextResolve == ResolveMultiread

SpecResolve == InitResolve /\ [][NextResolve]_vars

(***************************************************************************)
(* Specification SpecTable: Sampler::Sampler from the point where the      *)
(* initialization threads have been joined, with a multiread table: some   *)
(* of the fragment indexes that have an entry in the matrix belong to a    *)
(* multiread, as (multiread number, fragment index) pairs.  Every index of *)
(* the table is below the number of stored columns, so that the reads      *)
(* idxmap[i->second] and ds[...] are inside their arrays.  input keeps the *)
(* table as it was collected.                                              *)
(***************************************************************************)
MultireadTables(E) ==
    LET stored == {e[2] : e \in E}
        owners == {o \in [Cols -> {NULL, 0, 1}] :
                      \A f \in Cols :
                          o[f] # NULL => f \in stored /\ f < Cardinality(stored)}
    IN  {LET fs == Ascending({f \in Cols : o[f] # NULL})
         IN  [k \in DOMAIN fs |-> <<o[fs[k]], fs[k]>>] : o \in owners}

InitTable ==
    /\ pc = "ctor_compact"
    /\ \E E \in SUBSET (Rows \X Cols) :
          /\ pushed = PushesOf(E)
          /\ weight_matrix = PushAll(NewWeightMatrix(NRow), PushesOf(E))
          /\ \E mfs \in MultireadTables(E) :
                /\ multiread_frags = mfs
                /\ input = [NoInput EXCEPT !.multiread_frags = mfs]
    /\ observed = {[frag |-> f, count |-> 1, col |-> {f}] : f \in Cols}
    /\ nz_frag_counts = <<>>
    /\ idxmap = <<>>
    /\ entry = NoIterator
    /\ visited = <<>>
    /\ ds = <<>>
    /\ num_components = 0
    /\ transcript_component = <<>>
    /\ component_num_transcripts = <<>>
    /\ component_transcripts = <<>>
    /\ component_frag = <<>>
    /\ frag_counts = <<>>
    /\ frag_probs = <<>>
    /\ frag_probs_prop = <<>>
    /\ scan = NoScan
    /\ indexing = NoIndexing
    /\ locus = NoLocus
    /\ search = NoSearch
    /\ q = <<>>
    /\ threads = [w \in Workers |-> NewThread(NULL)]
    /\ loop = [i |-> 0, j0 |-> 0, r |-> 0, c |-> 0]
    /\ num_multireads = 0
    /\ multiread_alignments = <<>>
    /\ tmix = <<>>
    /\ cmix = <<>>
    /\ frag_count_sums = <<>>
    /\ cs = <<>>
    /\ sample_num = 0
    /\ component_queue = <<>>
    /\ mcmc_threads = [w \in Workers |-> NewThread(EndComponentSubset)]
    /\ multiread_queue = <<>>
    /\ multiread_threads = [w \in Workers |-> NewThread(EndMultireadBlock)]
    /\ hist = NoHistory

NextTable == NextCtor \/ CtorBuildMultireads

SpecTable == InitTable /\ [][NextTable]_vars

(***************************************************************************)
(* gsl_ran_shuffle: every permutation is possible.  Of an array longer     *)
(* than MaxShuffle the model explores three.                               *)
(***************************************************************************)
Reverse(s) == [k \in DOMAIN s |-> s[Len(s) + 1 - k]]

Rotate(s) == [k \in DOMAIN s |-> s[(k % Len(s)) + 1]]

\* draws with replacement
ShufflesWithRepeats(s) ==
    IF Len(s) <= MaxShuffle
    THEN [DOMAIN s -> Range(s)]
    ELSE {s, Reverse(s), Rotate(s)}

Shuffles(s) ==
    IF Len(s) <= MaxShuffle
    THEN {p \in [DOMAIN s -> Range(s)] : \A x \in Range(s) : \E k \in DOMAIN s : p[k] = x}
    ELSE {s, Reverse(s), Rotate(s)}

(***************************************************************************)
(* Sampler::run, the main thread                                           *)
(***************************************************************************)
Components == 0 .. (num_components - 1)

\* "Initial mixtures", init_frag_probs, the thread objects and cs
RunInit ==
    /\ pc = "run"
    /\ tmix' = [t \in DOMAIN tmix |->
                   RoundDiv(Unit, component_num_transcripts[transcript_component[t]])]
    /\ cmix' = [c \in Components |-> RoundDiv(Unit, num_components)]
    /\ frag_probs' = init_frag_probs(frag_probs, weight_matrix, component_frag,
                                     transcript_component, tmix')
    /\ component_queue' = <<>>
    /\ mcmc_threads' = [w \in Workers |-> NewThread(EndComponentSubset)]
    /\ multiread_queue' = <<>>
    /\ multiread_threads' = [w \in Workers |-> NewThread(EndMultireadBlock)]
    /\ cs' = [k \in 1 .. num_components |-> k - 1]
    /\ sample_num' = 0
    /\ hist' = [hist EXCEPT !.slack = [c \in Components |-> 0],
                            !.rounding =
                                RoundingOfRows(frag_probs, weight_matrix, component_frag,
                                               transcript_component, tmix', weight_matrix.nrow),
                            !.intra = [c \in Components |-> 0],
                   !.shuffles = [c \in Components |-> 0],
                   !.shape = [c \in Components |-> 0],
                   !.pairs = [c \in Components |-> <<>>],
                            !.draws = [c \in Components |-> 0]]
    /\ pc' = "round"
    /\ UNCHANGED <<wmvars, compvars, nz_frag_counts, observed, component_frag, frag_counts, frag_probs_prop,
                   poolvars, multireadvars, frag_count_sums>>

\* sample_num < num_samples: "Sample multiread alignments", the threads start
MultireadStartThreads ==
    /\ pc = "round"
    /\ sample_num < MaxRounds
    /\ multiread_threads' = [w \in Workers |-> start(multiread_threads[w])]
    /\ loop' = [loop EXCEPT !.r = 0]
    /\ hist' = [BeginPhase(hist, "multiread") EXCEPT
                   !.shuffled = FALSE,
                   !.clamped = {},
                   !.resolved = [j \in 0 .. (num_multireads - 1) |-> <<>>]]
    /\ pc' = "multiread_push"
    /\ UNCHANGED <<Constructing, input, scan, indexing, locus, search, q, threads, multireadvars, mixvars, cs,
                   sample_num, component_queue, mcmc_threads, multiread_queue>>

\* the loop has run num_samples rounds: the result is printed
RunReturn ==
    /\ pc = "round"
    /\ sample_num >= MaxRounds
    /\ pc' = "done"
    /\ UNCHANGED <<Constructing, runvars>>

\* multiread_queue.push(MultireadBlock(r, r + 100)), the last block up to
\* num_multireads
MultireadPushBlock ==
    /\ pc = "multiread_push"
    /\ loop.r < num_multireads
    /\ CanPush(multiread_queue)
    /\ LET v == IF loop.r + MultireadBlockSize < num_multireads
                   THEN loop.r + MultireadBlockSize ELSE num_multireads
       IN  /\ multiread_queue' = Append(multiread_queue, MultireadBlock(loop.r, v))
           /\ hist' = LogPush(hist, MultireadBlock(loop.r, v))
           /\ loop' = [loop EXCEPT !.r = v]
    /\ UNCHANGED <<pc, Constructing, input, scan, indexing, locus, search, q, threads, multireadvars, mixvars, cs,
                   sample_num, component_queue, mcmc_threads, multiread_threads>>

MultireadPushReturn ==
    /\ pc = "multiread_push"
    /\ loop.r >= num_multireads
    /\ loop' = [loop EXCEPT !.i = 0]
    /\ pc' = "multiread_sentinels"
    /\ UNCHANGED <<Constructing, input, scan, indexing, locus, search, q, threads, multireadvars, mixvars,
                   roundvars, hist>>

MultireadPushSentinel ==
    /\ PushSentinel(multiread_queue, EndMultireadBlock,
                    "multiread_sentinels", "multiread_join")
    /\ multiread_queue' = Append(multiread_queue, EndMultireadBlock)
    /\ UNCHANGED <<Constructing, input, scan, indexing, locus, search, q, threads, multireadvars, mixvars, cs,
                   sample_num, component_queue, mcmc_threads, multiread_threads>>

\* a join loop that returns after the first join
MultireadJoinFirstOnly ==
    /\ pc = "multiread_join"
    /\ Joinable(multiread_threads[loop.i])
    /\ loop' = [loop EXCEPT !.i = 0]
    /\ pc' = "frag_count_sums"
    /\ hist' = EndPhase(hist)
    /\ multiread_threads' = [multiread_threads EXCEPT ![loop.i] = join(@)]
    /\ UNCHANGED <<Constructing, input, scan, indexing, locus, search, q, threads, multireadvars, mixvars, cs,
                   sample_num, component_queue, mcmc_threads, multiread_queue>>

MultireadJoin ==
    /\ JoinNext(multiread_threads, "multiread_join", "frag_count_sums")
    /\ multiread_threads' = [multiread_threads EXCEPT ![loop.i] = join(@)]
    /\ UNCHANGED <<Constructing, input, scan, indexing, locus, search, q, threads, multireadvars, mixvars, cs,
                   sample_num, component_queue, mcmc_threads, multiread_queue>>

\* variant: a sum that was computed in an earlier round is kept
FragCountSumKept(fc, sums, c) == IF sums[c] = Uninit THEN SumSeq(fc[c]) ELSE sums[c]

\* std::fill(frag_count_sums, ..., 0.0f); frag_count_sums[i] += frag_counts[i][j]:
\* the counts are whole numbers, which a float adds exactly
FragCountSum(fc, sums, c) == SumSeq(fc[c])

\* "Recompute total fragments in each component"
FragCountSums ==
    /\ pc = "frag_count_sums"
    /\ frag_count_sums' = [c \in Components |-> FragCountSum(frag_counts, frag_count_sums, c)]
    /\ pc' = "shuffle"
    /\ UNCHANGED <<Constructing, poolvars, multireadvars, tmix, cmix, roundvars, hist>>

\* gsl_ran_shuffle(rng, cs, ...), then the MCMC threads start
ShuffleComponents ==
    /\ pc = "shuffle"
    /\ cs' \in Shuffles(cs)
    /\ mcmc_threads' = [w \in Workers |-> start(mcmc_threads[w])]
    /\ loop' = [loop EXCEPT !.c = 0]
    /\ hist' = [BeginPhase(hist, "mcmc") EXCEPT
                   !.shuffled = TRUE,
                   !.intra = [c \in Components |-> 0],
                   !.shuffles = [c \in Components |-> 0],
                   !.shape = [c \in Components |-> 0],
                   !.pairs = [c \in Components |-> <<>>],
                   !.draws = [c \in Components |-> 0]]
    /\ pc' = "component_push"
    /\ UNCHANGED <<Constructing, input, scan, indexing, locus, search, q, threads, multireadvars, mixvars,
                   sample_num, component_queue, multiread_queue, multiread_threads>>

\* component_queue.push(ComponentSubset(cs + c, 10)), the last subset up to
\* num_components
ComponentPushSubset ==
    /\ pc = "component_push"
    /\ loop.c < num_components
    /\ CanPush(component_queue)
    /\ LET len == IF loop.c + ComponentBatchSize < num_components
                     THEN ComponentBatchSize ELSE num_components - loop.c
       IN  /\ component_queue' = Append(component_queue, ComponentSubset(loop.c, len))
           /\ hist' = LogPush(hist, ComponentSubset(loop.c, len))
           /\ loop' = [loop EXCEPT !.c = @ + len]
    /\ UNCHANGED <<pc, Constructing, input, scan, indexing, locus, search, q, threads, multireadvars, mixvars, cs,
                   sample_num, mcmc_threads, multiread_queue, multiread_threads>>

ComponentPushReturn ==
    /\ pc = "component_push"
    /\ loop.c >= num_components
    /\ loop' = [loop EXCEPT !.i = 0]
    /\ pc' = "component_sentinels"
    /\ UNCHANGED <<Constructing, input, scan, indexing, locus, search, q, threads, multireadvars, mixvars,
                   roundvars, hist>>

ComponentPushSentinel ==
    /\ PushSentinel(component_queue, EndComponentSubset,
                    "component_sentinels", "component_join")
    /\ component_queue' = Append(component_queue, EndComponentSubset)
    /\ UNCHANGED <<Constructing, input, scan, indexing, locus, search, q, threads, multireadvars, mixvars, cs,
                   sample_num, mcmc_threads, multiread_queue, multiread_threads>>

ComponentJoin ==
    /\ JoinNext(mcmc_threads, "component_join", "normalize")
    /\ mcmc_threads' = [mcmc_threads EXCEPT ![loop.i] = join(@)]
    /\ UNCHANGED <<Constructing, input, scan, indexing, locus, search, q, threads, multireadvars, mixvars, cs,
                   sample_num, component_queue, multiread_queue, multiread_threads>>

\* float z = 0.0; z += cmix[c], over the first n components
RECURSIVE SumCmix(_, _)
SumCmix(cm, n) == IF n = 0 THEN 0 ELSE Float(SumCmix(cm, n - 1) + cm[n - 1])

\* "normalize cmix", ++sample_num
NormalizeCmix ==
    /\ pc = "normalize"
    /\ LET z == SumCmix(cmix, num_components)
       IN  /\ cmix' = [c \in Components |-> RoundDiv(cmix[c] * Unit, z)]
           /\ hist' = [hist EXCEPT !.z = z, !.sum = SumSeq([k \in 1 .. num_components |-> cmix[k - 1]])]
    /\ sample_num' = sample_num + 1
    /\ pc' = "round"
    /\ UNCHANGED <<Constructing, poolvars, multireadvars, tmix, frag_count_sums, cs,
                   component_queue, mcmc_threads, multiread_queue, multiread_threads>>

(***************************************************************************)
(* MultireadSamplerThread::run                                             *)
(***************************************************************************)
\* block = q.pop(); if (block.is_end_of_queue()) break;
MultireadSamplerThreadPop(w) ==
    /\ multiread_threads[w].st = "pop"
    /\ CanPop(multiread_queue)
    /\ multiread_queue' = Tail(multiread_queue)
    /\ LET block == Head(multiread_queue)
       IN  IF is_end_of_queue(block)
           THEN /\ multiread_threads' =
                      [multiread_threads EXCEPT ![w].st = "returned", ![w].item = block]
                /\ hist' = LogExit(hist, w)
           ELSE /\ multiread_threads' =
                      [multiread_threads EXCEPT
                          ![w].st = IF block.u < block.v THEN "work" ELSE "pop",
                          ![w].item = block]
                /\ hist' = LogPop(hist, block)
    /\ UNCHANGED <<pc, Constructing, poolvars, multireadvars, mixvars, cs, sample_num,
                   component_queue, mcmc_threads>>

\* one pass of "for (; block.u < block.v; ++block.u)"
MultireadSamplerThreadResolve(w) ==
    /\ multiread_threads[w].st = "work"
    /\ LET block == multiread_threads[w].item
           as == multiread_alignments[block.u]
       IN  /\ \E r \in ScaledDraws(SumProb(frag_probs, as, Len(as))) :
                 /\ frag_counts' = Resolved(frag_counts, frag_probs, as, r)
                 /\ hist' = [hist EXCEPT
                                !.resolved[block.u] = Append(@, w),
                                !.clamped =
                                    IF ChosenFrom(frag_probs, as, 0, r) >= Len(as)
                                    THEN @ \cup {block.u} ELSE @ \ {block.u}]
           /\ multiread_threads' =
                 [multiread_threads EXCEPT
                     ![w].st = IF block.u + 1 < block.v THEN "work" ELSE "pop",
                     ![w].item = MultireadBlock(block.u + 1, block.v)]
    /\ UNCHANGED <<pc, wmvars, compvars, nz_frag_counts, observed, component_frag, frag_probs, frag_probs_prop,
                   poolvars, multireadvars, mixvars, cs, sample_num, component_queue,
                   mcmc_threads, multiread_queue>>

(***************************************************************************)
(* InferenceThread::run, as MCMCThread                                     *)
(***************************************************************************)
\* s = q.pop(); if (s.is_end_of_queue()) break;
InferenceThreadPop(w) ==
    /\ mcmc_threads[w].st = "pop"
    /\ CanPop(component_queue)
    /\ component_queue' = Tail(component_queue)
    /\ LET s == Head(component_queue)
       IN  IF s.len = 0
           THEN /\ mcmc_threads' =
                      [mcmc_threads EXCEPT ![w].st = "returned", ![w].item = s]
                /\ hist' = LogExit(hist, w)
           ELSE /\ mcmc_threads' =
                      [mcmc_threads EXCEPT ![w].st = "intra", ![w].item = s, ![w].i = 0]
                /\ hist' = LogPop(hist, s)
    /\ UNCHANGED <<pc, Constructing, poolvars, multireadvars, mixvars, cs, sample_num,
                   multiread_queue, multiread_threads>>

\* the component s.cs[i] of thread t
ComponentAt(t) == cs[t.item.cs + t.i + 1]

\* the thread after pass i of "for (i = 0; i < s.len; ++i) run_intra_component"
AfterIntra(t) ==
    IF t.i + 1 < t.item.len
    THEN [t EXCEPT !.st = "intra", !.i = @ + 1, !.k = 0]
    ELSE [t EXCEPT !.st = "component", !.i = 0, !.k = 0]

\* run_intra_component(s.cs[i]) up to its loop: the early return, or the shuffle
RunIntraComponent(w) ==
    /\ mcmc_threads[w].st = "intra"
    /\ LET c == ComponentAt(mcmc_threads[w])
       IN  /\ IF component_num_transcripts[c] <= 1
              THEN /\ mcmc_threads' = [mcmc_threads EXCEPT ![w] = AfterIntra(@)]
                   /\ UNCHANGED component_transcripts
              ELSE /\ mcmc_threads' = [mcmc_threads EXCEPT ![w].st = "pairs", ![w].k = 0]
                   /\ \E p \in Shuffles(component_transcripts[c]) :
                         component_transcripts' = [component_transcripts EXCEPT ![c] = p]
           /\ hist' = [hist EXCEPT
                          !.intra[c] = @ + 1,
                          !.inter = NoCall,
                          !.shuffles[c] =
                              IF component_num_transcripts[c] <= 1 THEN @ ELSE @ + 1]
    /\ UNCHANGED <<pc, wmvars, ds, num_components, transcript_component,
                   component_num_transcripts, fragvars, poolvars, multireadvars,
                   mixvars, cs, sample_num, component_queue, multiread_queue,
                   multiread_threads>>

\* variant: every transcript is paired with the first of the list
PairWithFirst(list, i) == <<list[1], list[i + 2]>>

\* run_inter_transcript(S.component_transcripts[c][i],
\*                      S.component_transcripts[c][i + 1])
PairAt(list, i) == <<list[i + 1], list[i + 2]>>

\* the spacings of the floats around z * s and (1 - z) * s are added to the
\* slack of c: storing the two products moves their sum by half of that at most
LogRounding(c, u, v, zn, finite) ==
    \E p \in {ProposedTmix(tmix, u, v, zn)} :
    \E d \in {Deltas(tmix, u, v, p)} :
        hist' = [hist EXCEPT
                    !.inter = InterCall(tmix, u, v, finite),
                    !.pairs[c] = Append(@, <<u, v>>),
                    !.slack[c] =
                        IF SkipsPair(tmix, u, v) THEN @
                        ELSE @ + Spacing(zn * (tmix[u] + tmix[v]), ZGrid, 1)
                               + Spacing((ZGrid - zn) * (tmix[u] + tmix[v]), ZGrid, 1),
                    !.rounding[c] =
                        IF SkipsPair(tmix, u, v) THEN @
                        ELSE RoundingOfMove(@, frag_probs[c], weight_matrix, component_frag,
                                            c, u, v, tmix, p, d)]

\* one pass of the loop of run_intra_component: run_inter_transcript
RunInterTranscript(w) ==
    /\ mcmc_threads[w].st = "pairs"
    /\ LET t == mcmc_threads[w]
           c == ComponentAt(t)
           u == PairAt(component_transcripts[c], t.k)[1]
           v == PairAt(component_transcripts[c], t.k)[2]
       IN  /\ \/ \E zn \in UniformDraws :
                    run_inter_transcript(u, v, zn, FALSE) /\ LogRounding(c, u, v, zn, FALSE)
              \/ \E zn \in SliceDraws :
                    run_inter_transcript(u, v, zn, TRUE) /\ LogRounding(c, u, v, zn, TRUE)
           /\ mcmc_threads' =
                 [mcmc_threads EXCEPT ![w] =
                     IF t.k + 1 < component_num_transcripts[c] - 1
                     THEN [t EXCEPT !.k = @ + 1] ELSE AfterIntra(t)]
    /\ UNCHANGED <<pc, wmvars, compvars, nz_frag_counts, observed, component_frag, frag_counts, poolvars,
                   multireadvars, cmix, frag_count_sums, cs, sample_num,
                   component_queue, multiread_queue, multiread_threads>>

\* one pass of "for (i = 0; i < s.len; ++i) run_component(s.cs[i])"
RunComponent(w) ==
    /\ mcmc_threads[w].st = "component"
    /\ LET t == mcmc_threads[w]
           c == ComponentAt(t)
       IN  /\ \E g \in GammaDraws(c) : cmix' = [cmix EXCEPT ![c] = g]
           /\ mcmc_threads' =
                 [mcmc_threads EXCEPT ![w] =
                     IF t.i + 1 < t.item.len
                     THEN [t EXCEPT !.i = @ + 1] ELSE [t EXCEPT !.st = "pop", !.i = 0]]
           /\ hist' = [hist EXCEPT !.draws[c] = @ + 1, !.shape[c] = prec(c),
                                    !.inter = NoCall]
    /\ UNCHANGED <<pc, Constructing, poolvars, multireadvars, tmix, frag_count_sums,
                   cs, sample_num, component_queue, multiread_queue, multiread_threads>>

Main ==
    \/ EstimateStartThreads \/ EstimateScanFinish \/ EstimateScanReturn
    \/ EstimatePushSentinel \/ EstimateJoin
    \/ SamplerStartThreads \/ SamplerScanFinish \/ SamplerScanReturn
    \/ SamplerPushSentinel \/ SamplerJoin
    \/ CtorCompact \/ CtorCompactFault \/ CtorFindComponents
    \/ CtorLabelComponents \/ CtorLabelTranscripts
    \/ CtorReorderColumns \/ CtorBuildFragArrays \/ CtorBuildMultireads
    \/ RunInit \/ MultireadStartThreads \/ RunReturn
    \/ MultireadPushBlock \/ MultireadPushReturn \/ MultireadPushSentinel
    \/ MultireadJoin \/ FragCountSums \/ ShuffleComponents
    \/ ComponentPushSubset \/ ComponentPushReturn \/ ComponentPushSentinel
    \/ ComponentJoin \/ NormalizeCmix

Worker(w) ==
    \/ FragmentModelThreadPop(w) \/ FragmentModelThreadMeasure(w)
    \/ SamplerInitThreadPop(w) \/ SamplerInitThreadProcessLocus(w)
    \/ MultireadSamplerThreadPop(w) \/ MultireadSamplerThreadResolve(w)
    \/ InferenceThreadPop(w) \/ RunIntraComponent(w) \/ RunInterTranscript(w)
    \/ RunComponent(w)

Next == Main \/ \E w \in Workers : Worker(w)

Spec == InitSpec /\ [][Next]_vars

\* the steps of the main thread inside the four thread-pool phases
PoolMain ==
    \/ EstimateStartThreads \/ EstimateScanFinish \/ EstimateScanReturn
    \/ EstimatePushSentinel \/ EstimateJoin
    \/ SamplerStartThreads \/ SamplerScanFinish \/ SamplerScanReturn
    \/ SamplerPushSentinel \/ SamplerJoin
    \/ MultireadStartThreads \/ MultireadPushBlock \/ MultireadPushReturn
    \/ MultireadPushSentinel \/ MultireadJoin
    \/ ShuffleComponents \/ ComponentPushSubset \/ ComponentPushReturn
    \/ ComponentPushSentinel \/ ComponentJoin

\* a thread that can take a step eventually takes one: the main thread
\* inside a phase, and every worker
FairSpec == Spec /\ WF_vars(PoolMain) /\ \A w \in Workers : WF_vars(Worker(w))

(***************************************************************************)
(* Specification SpecMcmc: the MCMC threads of one round of Sampler::run,  *)
(* from the point where the main thread has pushed the batch and the       *)
(* end-of-queue values and waits in join.  The sampler is the one          *)
(* Sampler::Sampler builds for NRow transcripts of which the first n share *)
(* a fragment; tmix is what earlier rounds can have left: floats between 0 *)
(* and 1 that sum to 1 up to rounding in each component.                   *)
(***************************************************************************)
\* the values of a tmix entry after the initialization or a pairwise update
TmixValues(n) == {Float(x) : x \in 0 .. Unit} \cup {RoundDiv(Unit, n)}

\* the tmix of n transcripts in one component and NRow - n alone in theirs
TmixAfterRounds(n) ==
    {tm \in [Rows -> TmixValues(n)] :
        /\ \A t \in Rows : t >= n => tm[t] = Unit
        /\ Abs(SumSeq([k \in 1 .. n |-> tm[k - 1]]) - Unit) <= MaxDrift}

InitMcmc ==
    /\ pc = "component_join"
    /\ \E n \in 1 .. NRow :
       \E ps \in {PushesOf({<<t, 0>> : t \in 0 .. (n - 1)})} :
       \E wm \in {(CHOOSE r \in compact(PushAll(NewWeightMatrix(NRow), ps)) : TRUE)[1]} :
       \E roots \in {ConnectedRoots(wm)} :
       \E d \in {LabelledDs(roots)} :
       \E nc \in {NumComponents(roots)} :
       \E tc \in {TranscriptComponent(d, wm.ncol, wm.nrow)} :
       \E ct \in {ComponentTranscripts(tc, nc)} :
       \E fa \in {FragArrays(d, wm.ncol, nc)} :
       \E none \in {[c \in 0 .. (nc - 1) |-> [k \in 1 .. fa[2][c + 1] |-> Uninit]]} :
          /\ pushed = ps
          /\ weight_matrix = wm
          /\ idxmap = <<0>>
          /\ ds = d
          /\ num_components = nc
          /\ transcript_component = tc
          /\ component_transcripts = ct
          /\ component_num_transcripts = [c \in 0 .. (nc - 1) |-> Len(ct[c])]
          /\ component_frag = fa[1]
          /\ frag_counts = [c \in DOMAIN none |-> [k \in DOMAIN none[c] |-> 1]]
          /\ frag_probs_prop = none
          /\ frag_count_sums = [c \in DOMAIN none |-> Len(none[c])]
          /\ cmix = [c \in DOMAIN none |-> RoundDiv(Unit, nc)]
          /\ cs = [k \in 1 .. nc |-> k - 1]
          /\ component_queue =
                <<ComponentSubset(0, nc)>> \o [w \in 1 .. NumThreads |-> EndComponentSubset]
          /\ \E tm \in TmixAfterRounds(n) :
                /\ tmix = tm
                /\ frag_probs = init_frag_probs(none, wm, fa[1], tc, tm)
                /\ hist = [BeginPhase(NoHistory, "mcmc") EXCEPT
                              !.shuffled = TRUE,
                              !.slack = [c \in DOMAIN none |-> 0],
                              !.rounding =
                                  RoundingOfRows(none, wm, fa[1], tc, tm, wm.nrow),
                              !.intra = [c \in DOMAIN none |-> 0],
                              !.shuffles = [c \in DOMAIN none |-> 0],
                              !.shape = [c \in DOMAIN none |-> 0],
                              !.pairs = [c \in DOMAIN none |-> <<>>],
                              !.draws = [c \in DOMAIN none |-> 0]]
    /\ entry = NoIterator
    /\ visited = <<>>
    /\ nz_frag_counts = <<>>
    /\ observed = {}
    /\ input = NoInput
    /\ scan = NoScan
    /\ indexing = NoIndexing
    /\ locus = NoLocus
    /\ search = NoSearch
    /\ q = <<>>
    /\ threads = [w \in Workers |-> NewThread(NULL)]
    /\ loop = [i |-> 0, j0 |-> 0, r |-> 0, c |-> 0]
    /\ multiread_frags = <<>>
    /\ num_multireads = 0
    /\ multiread_alignments = <<>>
    /\ sample_num = 0
    /\ mcmc_threads = [w \in Workers |-> start(NewThread(EndComponentSubset))]
    /\ multiread_queue = <<>>
    /\ multiread_threads = [w \in Workers |-> NewThread(EndMultireadBlock)]

(***************************************************************************)
(* Specification SpecBlocks: "Sample multiread alignments" of one round of *)
(* Sampler::run with its MultireadSamplerThreads, for a sampler of one     *)
(* transcript, one fragment of a single alignment and n multireads that    *)
(* each kept one alignment, in the state Sampler::run has before its first *)
(* round.                                                                  *)
(***************************************************************************)
\* the numbers of multireads: none, one, a full block, MaxBlocks blocks of
\* which the last holds one
MultireadNumbers ==
    {0, 1, MultireadBlockSize, (MaxBlocks - 1) * MultireadBlockSize + 1}

InitBlocks ==
    /\ pc = "round"
    /\ \E n \in MultireadNumbers :
          /\ weight_matrix =
                [nrow      |-> 1,
                 ncol      |-> n + 1,
                 rowlens   |-> [i \in {0} |-> n + 1],
                 reserved  |-> [i \in {0} |-> n + 1],
                 rows      |-> [i \in {0} |-> [k \in 1 .. (n + 1) |-> 1]],
                 idxs      |-> [i \in {0} |-> [k \in 1 .. (n + 1) |-> k - 1]],
                 compacted |-> TRUE]
          /\ idxmap = [k \in 1 .. (n + 1) |-> k - 1]
          /\ pushed = [k \in 1 .. (n + 1) |-> <<0, k - 1, 1>>]
          /\ ds = [k \in 1 .. (n + 2) |-> 0]
          /\ component_frag = <<0, n + 1>>
          /\ frag_counts = [c \in {0} |-> [k \in 1 .. (n + 1) |-> 1]]
          /\ frag_probs = [c \in {0} |-> [k \in 1 .. (n + 1) |-> Float(Unit)]]
          /\ frag_probs_prop = [c \in {0} |-> [k \in 1 .. (n + 1) |-> Uninit]]
          /\ multiread_frags = [k \in 1 .. n |-> <<k - 1, k>>]
          /\ num_multireads = n
          /\ multiread_alignments =
                [j \in 0 .. (n - 1) |-> <<MultireadAlignment(ds, component_frag, j + 1)>>]
          /\ hist = [NoHistory EXCEPT
                        !.slack = [c \in {0} |-> 0],
                        !.rounding = [c \in {0} |-> [k \in 1 .. (n + 1) |-> 0]],
                        !.intra = [c \in {0} |-> 0],
                        !.shuffles = [c \in {0} |-> 0],
                        !.shape = [c \in {0} |-> 0],
                        !.pairs = [c \in {0} |-> <<>>],
                        !.draws = [c \in {0} |-> 0]]
    /\ entry = NoIterator
    /\ visited = <<>>
    /\ num_components = 1
    /\ transcript_component = [t \in {0} |-> 0]
    /\ component_num_transcripts = [c \in {0} |-> 1]
    /\ component_transcripts = [c \in {0} |-> <<0>>]
    /\ nz_frag_counts = <<>>
    /\ observed = {}
    /\ input = NoInput
    /\ scan = NoScan
    /\ indexing = NoIndexing
    /\ locus = NoLocus
    /\ search = NoSearch
    /\ q = <<>>
    /\ threads = [w \in Workers |-> NewThread(NULL)]
    /\ loop = [i |-> 0, j0 |-> 0, r |-> 0, c |-> 0]
    /\ tmix = [t \in {0} |-> Unit]
    /\ cmix = [c \in {0} |-> Unit]
    /\ frag_count_sums = [c \in {0} |-> Uninit]
    /\ cs = <<0>>
    /\ sample_num = 0
    /\ component_queue = <<>>
    /\ mcmc_threads = [w \in Workers |-> NewThread(EndComponentSubset)]
    /\ multiread_queue = <<>>
    /\ multiread_threads = [w \in Workers |-> NewThread(EndMultireadBlock)]

NextBlocks ==
    \/ MultireadStartThreads \/ MultireadPushBlock \/ MultireadPushReturn
    \/ MultireadPushSentinel \/ MultireadJoin
    \/ \E w \in Workers :
          MultireadSamplerThreadPop(w) \/ MultireadSamplerThreadResolve(w)

SpecBlocks == InitBlocks /\ [][NextBlocks]_vars

NextMcmc ==
    \E w \in Workers :
        \/ InferenceThreadPop(w) \/ RunIntraComponent(w)
        \/ RunInterTranscript(w) \/ RunComponent(w)

SpecMcmc == InitMcmc /\ [][NextMcmc]_vars

(***************************************************************************)
(* Properties of the weight matrix (checked under SpecWM).                 *)
(***************************************************************************)
PushedCols == {p[2] : p \in Range(pushed)}

MappedPushes == [k \in DOMAIN pushed |->
                    <<pushed[k][1], idxmap[pushed[k][2] + 1], pushed[k][3]>>]

IterationReproducesPushes ==
    /\ BagOfSeq(visited) = BagOfSeq(MappedPushes)
    /\ \A k \in DOMAIN visited :
          /\ visited[k][1] \in 0 .. (weight_matrix.nrow - 1)
          /\ visited[k][2] \in 0 .. (weight_matrix.ncol - 1)
    /\ weight_matrix.ncol = Cardinality(PushedCols)

\* C1: after any sequence of push calls, compact() followed by a full pass of
\* WeightMatrixIterator yields exactly the pushed entries (each weight once,
\* in its row, with its column mapped through the returned map), all row and
\* column indices are in range, and ncol is the number of distinct columns
\* that were pushed.
C1_IterationAfterCompact ==
    pc = "iterated" => IterationReproducesPushes

\* the same statement for matrices that hold at least one entry
C1_IterationAfterCompactNonEmpty ==
    (pc = "iterated" /\ pushed # <<>>) => IterationReproducesPushes

ColumnMapIsOrderPreservingBijection ==
    /\ \A c \in PushedCols, d \in PushedCols :
          c < d => idxmap[c + 1] < idxmap[d + 1]
    /\ {idxmap[c + 1] : c \in PushedCols} = 0 .. (weight_matrix.ncol - 1)
    /\ \A i \in Rows :
          BagOfSeq(weight_matrix.idxs[i]) =
             BagOfSeq([k \in 1 .. Len(SelectSeq(pushed, LAMBDA p : p[1] = i)) |->
                          idxmap[SelectSeq(pushed, LAMBDA p : p[1] = i)[k][2] + 1]])

\* C2: the map returned by compact(), restricted to the columns that occur
\* in a pushed entry, is a strictly increasing bijection onto 0..ncol-1, and
\* every stored column index has been rewritten through it.
C2_CompactColumnMap ==
    pc \in {"compacted", "iterate", "iterated"} => ColumnMapIsOrderPreservingBijection

\* the same statement for matrices that hold at least one entry
C2_CompactColumnMapNonEmpty ==
    (pc \in {"compacted", "iterate", "iterated"} /\ pushed # <<>>)
        => ColumnMapIsOrderPreservingBijection

\* the rows compact() finds empty are as the constructor left them, and the
\* result is the one the pushed entries determine
CompactedAsPushed ==
    /\ \A i \in Rows :
          (\A k \in DOMAIN pushed : pushed[k][1] # i) =>
              /\ weight_matrix.rowlens[i] = 0
              /\ weight_matrix.reserved[i] = 0
              /\ weight_matrix.rows[i] = <<>>
              /\ weight_matrix.idxs[i] = <<>>
    /\ \A i \in Rows :
          weight_matrix.rowlens[i] = Cardinality({k \in DOMAIN pushed : pushed[k][1] = i})
    /\ weight_matrix.ncol = Cardinality(PushedCols)

\* C18: compact() completes on every matrix without an out-of-range access;
\* on a matrix without entries it leaves every row empty and ncol = 0, and
\* in general it leaves the empty rows untouched and compacts the others
C18_CompactIsTotal ==
    /\ pc # "fault"
    /\ pc \in {"compacted", "iterate", "iterated"} => CompactedAsPushed

\* the same statement for matrices that hold at least one entry
C18_CompactIsTotalNonEmpty ==
    pushed # <<>> =>
        /\ pc # "fault"
        /\ pc \in {"compacted", "iterate", "iterated"} => CompactedAsPushed

\* the old-to-new map that the set of the pushed columns determines
RelabelingOfColumnSet ==
    [c \in 1 .. (IF PushedCols = {} THEN 0
                 ELSE 1 + CHOOSE m \in PushedCols : \A d \in PushedCols : d <= m) |->
        Cardinality({d \in PushedCols : d < c - 1})]

PushesToRowOf(i) == SelectSeq(pushed, LAMBDA p : p[1] = i)

\* C19: the map returned by compact() and the contents of the compacted
\* rows are determined by the set of the pushed entries, whatever the order
\* of the push calls: the map is the one the set of pushed columns gives,
\* and a row holds its entries relabeled and sorted by column
C19_RelabelingDependsOnColumnSet ==
    pc \in {"compacted", "iterate", "iterated"} =>
        /\ idxmap = RelabelingOfColumnSet
        /\ \A i \in Rows :
              /\ BagOfSeq([k \in 1 .. weight_matrix.rowlens[i] |->
                              <<weight_matrix.idxs[i][k], weight_matrix.rows[i][k]>>])
                    = BagOfSeq([k \in DOMAIN PushesToRowOf(i) |->
                                   <<RelabelingOfColumnSet[PushesToRowOf(i)[k][2] + 1],
                                     PushesToRowOf(i)[k][3]>>])
              /\ \A k \in 1 .. (weight_matrix.rowlens[i] - 1) :
                    weight_matrix.idxs[i][k] <= weight_matrix.idxs[i][k + 1]

\* columns were pushed in decreasing order, one of them twice into a row
\* with two weights, and a smaller column was never pushed
C19_Witness ==
    /\ pc = "compacted"
    /\ \E k, m \in DOMAIN pushed :
          k < m /\ pushed[k][2] > pushed[m][2] /\ pushed[k][1] < pushed[m][1]
    /\ \E k, m \in DOMAIN pushed :
          /\ k # m
          /\ pushed[k][1] = pushed[m][1]
          /\ pushed[k][2] = pushed[m][2]
          /\ pushed[k][3] # pushed[m][3]
    /\ \E c \in Cols \ PushedCols : \E d \in PushedCols : c < d

(***************************************************************************)
(* Properties of the constructed components (checked under SpecCtor).      *)
(***************************************************************************)
\* reference: reachability in the bipartite graph of the pushed entries
Linked(t, u) ==
    \E p \in Range(pushed), o \in Range(pushed) :
        p[1] = t /\ o[1] = u /\ p[2] = o[2]

RECURSIVE ReachFrom(_)
ReachFrom(S) ==
    LET T == S \cup {u \in Rows : \E t \in S : Linked(t, u)}
    IN  IF T = S THEN S ELSE ReachFrom(T)

Connected(t, u) == u \in ReachFrom({t})

TranscriptsLabelled == pc \in {"ctor_reorder", "ctor_frag_arrays", "constructed"}

\* C3: two transcripts get the same transcript_component label exactly when
\* a path of weight-matrix entries through shared fragment columns connects
\* them (brute-force reachability over the pushed entries).
C3_ComponentsAreConnectedComponents ==
    TranscriptsLabelled =>
        \A t \in Rows, u \in Rows :
            (transcript_component[t] = transcript_component[u]) <=> Connected(t, u)

\* a matrix in which two transcripts share no fragment but are connected
\* through a third, and the constructor has labelled them
C3_Witness ==
    /\ pc = "constructed"
    /\ \E t \in Rows, u \in Rows :
          /\ t # u /\ ~Linked(t, u) /\ Connected(t, u)
          /\ transcript_component[t] = transcript_component[u]

\* C8: after construction the labels given to the items of the graph are
\* exactly 0..num_components-1 (and, when the matrix holds an entry, every
\* label is the label of some transcript), component_transcripts[c] lists
\* exactly the transcripts labelled c, each once, and the
\* component_num_transcripts values sum to nrow.
C8_DenseLabelsAndTranscriptLists ==
    TranscriptsLabelled =>
        /\ Range(ds) = 0 .. (num_components - 1)
        /\ \A t \in Rows : transcript_component[t] \in 0 .. (num_components - 1)
        /\ pushed # <<>> =>
              {transcript_component[t] : t \in Rows} = 0 .. (num_components - 1)
        /\ \A c \in 0 .. (num_components - 1) :
              /\ Range(component_transcripts[c]) =
                    {t \in Rows : transcript_component[t] = c}
              /\ Len(component_transcripts[c]) =
                    Cardinality(Range(component_transcripts[c]))
              /\ component_num_transcripts[c] = Len(component_transcripts[c])
        /\ SumSeq([k \in 1 .. num_components |-> component_num_transcripts[k - 1]])
              = weight_matrix.nrow

\* construction finished with several components, one of them holding
\* more than one transcript
C8_Witness ==
    /\ pc = "constructed"
    /\ num_components >= 2
    /\ \E c \in 0 .. (num_components - 1) : component_num_transcripts[c] >= 2

ColumnsOf(c) == {j \in 0 .. (weight_matrix.ncol - 1) : ds[j + 1] = c}

\* C9: after column reordering component_frag is non-decreasing from 0 to
\* ncol, the columns in [component_frag[c], component_frag[c+1]) are exactly
\* the fragment columns of component c (every column stored in a row of a
\* transcript of c is one of them), so the difference is the fragment count
\* of c, 0 for a component without fragments.
C9_ComponentFragRanges ==
    pc = "constructed" =>
        /\ Len(component_frag) = num_components + 1
        /\ component_frag[1] = 0
        /\ component_frag[num_components + 1] = weight_matrix.ncol
        /\ \A c \in 0 .. (num_components - 1) :
              /\ component_frag[c + 1] <= component_frag[c + 2]
              /\ ColumnsOf(c) = component_frag[c + 1] .. (component_frag[c + 2] - 1)
              /\ Len(frag_counts[c]) = component_frag[c + 2] - component_frag[c + 1]
              /\ pushed # <<>> =>
                    Cardinality({p[2] : p \in {o \in Range(pushed) :
                                     transcript_component[o[1]] = c}})
                       = component_frag[c + 2] - component_frag[c + 1]
        /\ \A t \in Rows : \A k \in DOMAIN weight_matrix.idxs[t] :
              weight_matrix.idxs[t][k] \in ColumnsOf(transcript_component[t])

\* a sampler with a component without fragments and a component with
\* several fragments
C9_Witness ==
    /\ pc = "constructed"
    /\ \E c \in 0 .. (num_components - 1) :
          component_frag[c + 2] - component_frag[c + 1] = 0
    /\ \E c \in 0 .. (num_components - 1) :
          component_frag[c + 2] - component_frag[c + 1] >= 2


(***************************************************************************)
(* The column permutation of Sampler::Sampler (checked under SpecCtor)     *)
(***************************************************************************)
ReorderStep == pc = "ctor_reorder" /\ pc' = "ctor_frag_arrays"

OldCols == 0 .. (weight_matrix.ncol - 1)

\* the new indices are a permutation of the old ones and the columns of a
\* component with a smaller label come first
GroupedByComponent ==
    /\ DOMAIN idxmap' = 1 .. weight_matrix.ncol
    /\ {idxmap'[i + 1] : i \in OldCols} = OldCols
    /\ \A i, j \in OldCols : ds[i + 1] < ds[j + 1] => idxmap'[i + 1] < idxmap'[j + 1]
    /\ \A i \in OldCols : ds'[idxmap'[i + 1] + 1] = ds[i + 1]

\* C20 as stated: the permutation groups the columns by component and keeps
\* the order of the columns of a component
C20_PermutationKeepsOrderInComponent ==
    [][ReorderStep =>
          /\ GroupedByComponent
          /\ \A i, j \in OldCols :
                i < j /\ ds[i + 1] = ds[j + 1] => idxmap'[i + 1] < idxmap'[j + 1]]_vars

\* C20: the permutation applied after the labelling groups the fragment
\* columns by component, in the order of the component labels; the order
\* of the columns within a component is the one std::sort leaves, which
\* need not be their previous order
C20_PermutationGroupsByComponent ==
    [][ReorderStep => GroupedByComponent]_vars

\* the columns are reordered: two components hold columns, and two columns
\* of one component have changed places
C20_Witness ==
    /\ pc = "ctor_frag_arrays"
    /\ \E i, j \in 0 .. (weight_matrix.ncol - 1) :
          /\ i < j
          /\ idxmap[i + 1] > idxmap[j + 1]
          /\ ds[idxmap[i + 1] + 1] = ds[idxmap[j + 1] + 1]
    /\ \E i, j \in 0 .. (weight_matrix.ncol - 1) : ds[i + 1] # ds[j + 1]

(***************************************************************************)
(* Properties of the run (checked under Spec and FairSpec).                *)
(***************************************************************************)
InMultiread == pc \in {"multiread_push", "multiread_sentinels", "multiread_join"}

InMcmc == pc \in {"component_push", "component_sentinels", "component_join"}

\* the main thread is between two rounds, or past the last one
RoundBoundary == pc \in {"round", "done"}

\* the main thread is past the multiread joins of a round
AfterMultireadPhase ==
    \/ pc \in {"frag_count_sums", "shuffle", "normalize"}
    \/ InMcmc
    \/ (RoundBoundary /\ sample_num >= 1)

SumTmix(c) ==
    SumSeq([k \in DOMAIN component_transcripts[c] |->
               tmix[component_transcripts[c][k]]])

SumAllCmix == SumSeq([k \in 1 .. num_components |-> cmix[k - 1]])

\* C4 (as stated): after the initialization and after every completed round
\* the tmix of the transcripts of each component sum to 1 and the cmix of
\* all components sum to 1.
C4_MixturesSumToOne ==
    RoundBoundary =>
        /\ \A c \in Components : SumTmix(c) = Unit
        /\ SumAllCmix = Unit

\* C4 (amended): after the initialization and after every completed round
\* the sums are 1 up to rounding only.  The tmix of a component that holds
\* a transcript are off by at most half a unit of resolution per transcript
\* plus, for each pairwise update made so far, half the float spacing at
\* each of the two products it stored.  The cmix are off by at most half a
\* unit per component plus the relative error of the float accumulator z
\* they were divided by, which is half a float spacing at z per component.
C4_MixturesSumToOneUpToRounding ==
    RoundBoundary =>
        /\ \A c \in Components :
              component_num_transcripts[c] > 0 =>
                 2 * Abs(SumTmix(c) - Unit)
                    <= component_num_transcripts[c] + hist.slack[c]
        /\ IF sample_num = 0
           THEN 2 * Abs(SumAllCmix - Unit) <= num_components
           ELSE /\ 2 * Abs(hist.sum - hist.z) <= num_components * Ulp(hist.z)
                /\ 2 * hist.z * Abs(SumAllCmix - Unit)
                      <= num_components * hist.z + 2 * Unit * Abs(hist.sum - hist.z)

\* a round was completed in which pairwise updates moved a sum off 1 and z
\* was not the sum of the cmix
C4_Witness ==
    /\ pc = "round"
    /\ sample_num >= 1
    /\ \E c \in Components : hist.slack[c] > 0 /\ SumTmix(c) # Unit
    /\ hist.z # hist.sum
    /\ SumAllCmix # Unit

\* the positions of cs a ComponentSubset covers, and the components there
SubsetPositions(s) == (s.cs + 1) .. (s.cs + s.len)

SubsetComponents(s) == {cs[k] : k \in SubsetPositions(s)}

\* the MCMC threads that hold a batch
Updating == {w \in Workers : mcmc_threads[w].st \in {"intra", "pairs", "component"}}

\* C5: during a round every component id is in exactly one pushed
\* ComponentSubset, each batch is popped by exactly one MCMC worker, no two
\* workers hold the same component at once, and every component is updated
\* exactly once per round.
C5_OneBatchOneWorkerPerComponent ==
    hist.phase = "mcmc" =>
        /\ \A i, j \in DOMAIN hist.pushed :
              i # j => SubsetComponents(hist.pushed[i])
                          \cap SubsetComponents(hist.pushed[j]) = {}
        /\ \A i \in DOMAIN hist.pushed :
              Cardinality(SubsetComponents(hist.pushed[i])) = hist.pushed[i].len
        /\ (pc # "component_push" =>
               UNION {SubsetComponents(hist.pushed[i]) : i \in DOMAIN hist.pushed}
                  = Components)
        /\ ~hist.twice
        /\ hist.popped \subseteq Range(hist.pushed)
        /\ (hist.returned => hist.popped = Range(hist.pushed))
        /\ \A w, x \in Updating :
              w # x => SubsetComponents(mcmc_threads[w].item)
                          \cap SubsetComponents(mcmc_threads[x].item) = {}
        /\ \A c \in Components : hist.intra[c] <= 1 /\ hist.draws[c] <= 1
        /\ (hist.returned =>
               \A c \in Components : hist.intra[c] = 1 /\ hist.draws[c] = 1)

\* two workers update the two batches of a round at the same time
C5_Witness ==
    /\ hist.phase = "mcmc"
    /\ Len(hist.pushed) = 2
    /\ Updating = Workers
    /\ mcmc_threads[0].item # mcmc_threads[1].item

\* C6: within a round the multiread workers are joined before the fragment
\* counts are summed, cs is shuffled before an MCMC worker receives a batch,
\* within a batch the pairwise updates precede the mixture draws, the MCMC
\* workers are joined before cmix is normalized, and no worker runs when
\* the next round starts.
C6_RoundStepsInOrder ==
    /\ (~InMultiread => \A w \in Workers : ~Running(multiread_threads[w]))
    /\ (~InMultiread => multiread_queue = <<>>)
    /\ (~InMcmc => \A w \in Workers : ~Running(mcmc_threads[w]))
    /\ (~InMcmc => component_queue = <<>>)
    /\ (InMultiread => ~hist.shuffled)
    /\ \A w \in Updating :
          /\ hist.shuffled
          /\ mcmc_threads[w].st \in {"intra", "pairs"} =>
                \A c \in SubsetComponents(mcmc_threads[w].item) : hist.draws[c] = 0
          /\ mcmc_threads[w].st = "component" =>
                \A c \in SubsetComponents(mcmc_threads[w].item) : hist.intra[c] = 1

\* in the second round a worker draws the mixtures of a batch of several
\* components after their pairwise updates
C6_Witness ==
    /\ sample_num >= 1
    /\ \E w \in Workers :
          /\ mcmc_threads[w].st = "component"
          /\ mcmc_threads[w].item.len > 1
          /\ mcmc_threads[w].i > 0

\* the first end-of-queue value of a queue has only end-of-queue values behind
EndsLast(qu, IsEnd(_)) ==
    \A i, j \in DOMAIN qu : (i < j /\ IsEnd(qu[i])) => IsEnd(qu[j])

IsNull(x) == x = NULL

IsEndBlock(x) == x.u = INT_MAX

IsEndSubset(x) == x.len = 0

\* the number of work items the phase last begun has to push
PhaseWork ==
    CASE hist.phase = "estimate"  -> input.intervals
      [] hist.phase = "sampler"   -> Len(input.loci)
      [] hist.phase = "multiread" ->
            (num_multireads + MultireadBlockSize - 1) \div MultireadBlockSize
      [] hist.phase = "mcmc"      ->
            (num_components + ComponentBatchSize - 1) \div ComponentBatchSize
      [] OTHER                    -> 0

PhaseProtocol ==
    /\ EndsLast(q, IsNull)
    /\ EndsLast(multiread_queue, IsEndBlock)
    /\ EndsLast(component_queue, IsEndSubset)
    /\ hist.sentinels <= NumThreads
    /\ (hist.sentinels > 0 => Len(hist.pushed) = PhaseWork)
    /\ \A w \in Workers : hist.exits[w] <= 1
    /\ ~hist.twice
    /\ hist.popped \subseteq Range(hist.pushed)
    /\ \A i, j \in DOMAIN hist.pushed : i # j => hist.pushed[i] # hist.pushed[j]
    /\ (hist.returned =>
           /\ hist.sentinels = NumThreads
           /\ \A w \in Workers : hist.exits[w] = 1
           /\ hist.popped = Range(hist.pushed)
           /\ Len(hist.pushed) = PhaseWork
           /\ \A w \in Workers : /\ ~Running(threads[w])
                                 /\ ~Running(multiread_threads[w])
                                 /\ ~Running(mcmc_threads[w]))

CountOf(a) == frag_counts[a.c][a.at + 1]

\* C10: after the multiread phase of a round every multiread has exactly
\* one alignment record with count 1 and count 0 in all its others, the last
\* one when the accumulation did not cover the draw.
C10_OneAlignmentPerMultiread ==
    AfterMultireadPhase =>
        \A m \in DOMAIN multiread_alignments :
           LET as == multiread_alignments[m]
           IN  /\ \A k \in DOMAIN as : CountOf(as[k]) \in {0, 1}
               /\ Cardinality({k \in DOMAIN as : CountOf(as[k]) = 1}) = 1
               /\ (m \in hist.clamped => CountOf(as[Len(as)]) = 1)

\* a multiread of two alignments was resolved in the second round and the
\* loop did not cover its draw
C10_Witness ==
    /\ pc = "frag_count_sums"
    /\ sample_num >= 1
    /\ \E m \in DOMAIN multiread_alignments :
          /\ Len(multiread_alignments[m]) >= 2
          /\ m \in hist.clamped

(***************************************************************************)
(* Fragment probabilities against the mixtures.                            *)
(***************************************************************************)
\* the weights weight(t, f) of the entries of row t in column f
RECURSIVE RowWeight(_, _, _, _)
RowWeight(wm, t, f, k) ==
    IF k = 0 THEN 0
    ELSE RowWeight(wm, t, f, k - 1) + (IF wm.idxs[t][k] = f THEN wm.rows[t][k] ELSE 0)

\* the sum over the transcripts t of c of tmix[t] * weight(t, f)
MixedWeight(c, f) ==
    SumSeq([k \in 1 .. component_num_transcripts[c] |->
               LET t == component_transcripts[c][k]
               IN  tmix[t] * RowWeight(weight_matrix, t, f, weight_matrix.rowlens[t])])

FragsOf(c) == component_frag[c + 1] .. (component_frag[c + 2] - 1)

FragProb(c, f) == frag_probs[c][f - component_frag[c + 1] + 1]

Initialized == pc \in {"round", "done"} \/ InMultiread \/ InMcmc

\* C11 as stated: frag_probs[c][f] equals the sum of tmix[t] * weight(t, f)
C11_FragProbsEqualMixedWeights ==
    Initialized =>
        \A c \in Components : \A f \in FragsOf(c) : FragProb(c, f) = MixedWeight(c, f)

\* C11: after initialization and after every run_inter_transcript update,
\* frag_probs[c][f] differs from the sum over the transcripts t of c of
\* tmix[t] * weight(t, f) by no more than what the float operations applied
\* to it (the conversions of tmix and of the deltas, the stores of asxpy)
\* have rounded away
C11_FragProbsFollowMixedWeights ==
    Initialized =>
        \A c \in Components : \A f \in FragsOf(c) :
            Abs(FragProb(c, f) - MixedWeight(c, f))
                <= hist.rounding[c][f - component_frag[c + 1] + 1]

\* an update has moved the mixtures of a component of two transcripts and
\* some fragment probability no longer equals its sum
C11_Witness ==
    /\ Initialized
    /\ \E c \in Components :
          /\ component_num_transcripts[c] > 1
          /\ hist.intra[c] > 0
          /\ \E f \in FragsOf(c) :
                /\ FragProb(c, f) # MixedWeight(c, f)
                /\ MixedWeight(c, f) > 0

(***************************************************************************)
(* Components of one transcript                                            *)
(***************************************************************************)
Constructed == Initialized \/ pc \in {"constructed", "run"}

\* C15: the tmix of the transcript of a component of one transcript is 1.0
\* after the initialization and in every state of every round, and the input
\* of three transcripts of which two share a fragment is constructed as two
\* components
C15_SingleTranscriptComponent ==
    /\ Initialized =>
          \A c \in Components :
              component_num_transcripts[c] = 1 =>
                  tmix[component_transcripts[c][1]] = Unit
    /\ Constructed /\ input = TwoLoci => num_components = 2

\* the rounds are over: the component of one transcript was passed to
\* run_intra_component and the mixtures of the other component have moved
C15_Witness ==
    /\ pc = "done"
    /\ input = TwoLoci
    /\ \E c, d \in Components :
          /\ component_num_transcripts[c] = 1
          /\ component_num_transcripts[d] = 2
          /\ tmix[component_transcripts[d][1]] # tmix[component_transcripts[d][2]]

(***************************************************************************)
(* Locus initialization                                                    *)
(***************************************************************************)
Loci == 0 .. (Len(input.loci) - 1)

\* the transcripts of locus l: the rows its pushes go to
LocusRows(l) == {input.loci[l + 1][k][1] : k \in DOMAIN input.loci[l + 1]}

\* the number of push calls the input holds for row i
PushesToRow(i) ==
    SumSeq([l \in DOMAIN input.loci |->
               Cardinality({k \in DOMAIN input.loci[l] : input.loci[l][k][1] = i})])

Holders(l) == {w \in Workers : threads[w].st = "work" /\ threads[w].item = l}

Enqueued(l) == Cardinality({k \in DOMAIN hist.pushed : hist.pushed[k] = l})

Queued(l) == Cardinality({k \in DOMAIN q : q[k] = l})

\* l was popped, processed and deleted
Processed(l) == l \in hist.popped /\ Holders(l) = {}

\* every locus is in one place at a time, and a row holds the pushes of its
\* locus once that locus was processed and nothing before
LocusInOnePlace ==
    /\ ~hist.twice
    /\ \A l \in Loci :
          /\ Enqueued(l) = (IF l < loop.j0 THEN 1 ELSE 0)
          /\ Queued(l) + Cardinality(Holders(l)) + (IF Processed(l) THEN 1 ELSE 0)
                = Enqueued(l)
          /\ \A i \in LocusRows(l) :
                weight_matrix.rowlens[i] = (IF Processed(l) THEN PushesToRow(i) ELSE 0)
    /\ \A l, m \in Loci :
          l # m /\ Holders(l) # {} /\ Holders(m) # {} =>
              LocusRows(l) \cap LocusRows(m) = {}
    /\ pc = "ctor_compact" => \A l \in Loci : Processed(l)

\* a step that changes row i is the processing of the locus of i by the one
\* worker that holds it
RowWrittenByHolder ==
    \A i \in 0 .. (weight_matrix.nrow - 1) :
        (/\ pc \in {"sampler_scan", "sampler_sentinels", "sampler_join"}
         /\ weight_matrix'.nrow = weight_matrix.nrow
         /\ \/ weight_matrix'.rowlens[i] # weight_matrix.rowlens[i]
            \/ weight_matrix'.rows[i] # weight_matrix.rows[i]
            \/ weight_matrix'.idxs[i] # weight_matrix.idxs[i]) =>
            \E w \in Workers :
                /\ threads[w].st = "work"
                /\ threads'[w].st = "pop"
                /\ i \in LocusRows(threads[w].item)
                /\ Holders(threads[w].item) = {w}
                /\ \A o \in Workers \ {w} : threads'[o] = threads[o]

\* C13: during locus initialization every locus is enqueued once, popped and
\* processed by one worker and deleted once, and every write to a row of the
\* weight matrix is made by the one worker that holds the locus of that row
C13_OneWorkerPerLocus ==
    /\ [](pc \in {"sampler_scan", "sampler_sentinels", "sampler_join", "ctor_compact"}
            => LocusInOnePlace)
    /\ [][RowWrittenByHolder]_vars

\* both workers hold a locus, and one of the two loci has two transcripts
C13_Witness ==
    /\ pc \in {"sampler_scan", "sampler_sentinels", "sampler_join"}
    /\ \A w \in Workers : threads[w].st = "work"
    /\ \E l \in Loci : Holders(l) # {} /\ Cardinality(LocusRows(l)) = 2

(***************************************************************************)
(* Transcripts without fragments                                           *)
(***************************************************************************)
\* the transcripts for which process_locus pushes no entry
WithoutFragments == {t \in 0 .. (input.nrow - 1) : PushesToRow(t) = 0}

\* the component of t holds t alone and no fragment column, and its
\* fragment arrays were never allocated
OwnEmptyComponent(t) ==
    LET c == transcript_component[t]
    IN  /\ component_num_transcripts[c] = 1
        /\ component_frag[c + 2] = component_frag[c + 1]
        /\ frag_counts[c] = <<>> /\ frag_probs[c] = <<>> /\ frag_probs_prop[c] = <<>>

\* the shape of the gamma draw of the component of t is the prior term alone
PriorShapeOnly(t) ==
    LET c == transcript_component[t]
    IN  \A w \in Workers :
            mcmc_threads[w].st = "component" /\ ComponentAt(mcmc_threads[w]) = c =>
                /\ frag_count_sums[c] = 0
                /\ prec(c) = component_num_transcripts[c] * tmix_prior_prec

\* C16: a transcript without compatible fragments has transcript_weights[t]
\* = min_transcript_weight, gets a component of its own without fragment
\* columns, whose cmix draw has the prior term as its shape, and the
\* construction and the rounds complete
C16_TranscriptWithoutFragments ==
    \A t \in WithoutFragments :
        /\ pc # "fault"
        /\ Constructed => StoredTranscriptWeight(t) = min_transcript_weight
        /\ Constructed => OwnEmptyComponent(t)
        /\ InMcmc => PriorShapeOnly(t)

\* what holds of it: the weight is at least min_transcript_weight, and the
\* component is its own, without columns and drawn from the prior term
C16_ComponentOfTranscriptWithoutFragments ==
    \A t \in WithoutFragments :
        /\ StoredTranscriptWeight(t) >= min_transcript_weight
        /\ Constructed => OwnEmptyComponent(t)
        /\ InMcmc => PriorShapeOnly(t)

(***************************************************************************)
(* What the rounds of Sampler::run change                                  *)
(***************************************************************************)
InRounds ==
    \/ pc \in {"round", "frag_count_sums", "shuffle", "normalize"}
    \/ InMultiread
    \/ InMcmc

\* the elements of frag_counts that are the count of a multiread alignment
MultireadCounts ==
    UNION {{<<a.c, a.at + 1>> : a \in Range(multiread_alignments[j])} :
              j \in DOMAIN multiread_alignments}

\* a step changes no count but those of multiread alignments
OnlyMultireadCountsChange ==
    /\ DOMAIN frag_counts' = DOMAIN frag_counts
    /\ \A c \in DOMAIN frag_counts :
          /\ DOMAIN frag_counts'[c] = DOMAIN frag_counts[c]
          /\ \A k \in DOMAIN frag_counts[c] :
                frag_counts'[c][k] # frag_counts[c][k] => <<c, k>> \in MultireadCounts

\* a step leaves the weight matrix and the component labels and ranges alone
StructureUnchanged ==
    /\ weight_matrix' = weight_matrix
    /\ transcript_component' = transcript_component
    /\ num_components' = num_components
    /\ component_frag' = component_frag
    /\ component_num_transcripts' = component_num_transcripts
    /\ multiread_alignments' = multiread_alignments

\* C17 as stated: in the rounds component_transcripts is unchanged as well,
\* and tmix, cmix, frag_probs, frag_probs_prop and the multiread counts are
\* the only arrays of the sampler that change
C17_RoundsChangeOnlyMixturesAndProbs ==
    [][InRounds =>
          /\ StructureUnchanged
          /\ component_transcripts' = component_transcripts
          /\ frag_count_sums' = frag_count_sums
          /\ OnlyMultireadCountsChange]_vars

\* C17: in the rounds the weight matrix, transcript_component,
\* component_frag and component_num_transcripts are unchanged and each
\* component_transcripts[c] keeps its transcripts, in an order that
\* run_intra_component permutes; besides tmix, cmix, frag_probs and
\* frag_probs_prop, the arrays that change are frag_count_sums and the
\* multiread counts of frag_counts
C17_RoundsKeepStructure ==
    [][InRounds =>
          /\ StructureUnchanged
          /\ DOMAIN component_transcripts' = DOMAIN component_transcripts
          /\ \A c \in DOMAIN component_transcripts :
                BagOfSeq(component_transcripts'[c]) = BagOfSeq(component_transcripts[c])
          /\ OnlyMultireadCountsChange]_vars

\* in a round, the transcripts of a component are in another order than
\* the constructor left them in, frag_count_sums is computed and the count
\* of a multiread alignment is 0
C17_Witness ==
    /\ InMcmc
    /\ component_transcripts # ComponentTranscripts(transcript_component, num_components)
    /\ \E c \in Components : frag_count_sums[c] > 0
    /\ \E x \in MultireadCounts : frag_counts[x[1]][x[2]] = 0

(***************************************************************************)
(* Properties of Indexer (checked under SpecIndexer)                       *)
(***************************************************************************)
\* the reads of w that the loop has passed
ReadsPassed(w) == SubSeq(indexing.reads[w], 1, indexing.locus[w].r)

\* the indices held by the frag_idx maps
IndexOf(w, a) == indexing.locus[w].frag_idx[a].first

Indexed == {<<w, a>> \in Workers \X Frags : a \in DOMAIN indexing.locus[w].frag_idx}

\* C14: under any interleaving the indices returned by get() are distinct
\* and form the range that starts at the initial value, and a fragment of a
\* locus holds an index exactly when it was read and is compatible with a
\* transcript, the same index however often it is read
C14_DistinctGapFreeIndices ==
    pc = "process_locus" =>
        /\ \A m, n \in DOMAIN indexing.returned :
               m # n => indexing.returned[m] # indexing.returned[n]
        /\ Range(indexing.returned)
               = indexing.first .. (indexing.first + Len(indexing.returned) - 1)
        /\ \A w \in Workers :
               /\ DOMAIN indexing.locus[w].frag_idx
                      = {a \in Range(ReadsPassed(w)) : has_compatible_transcript(a)}
               /\ \A a \in DOMAIN indexing.locus[w].frag_idx :
                      indexing.locus[w].frag_idx[a].second
                          = Cardinality({k \in DOMAIN ReadsPassed(w) :
                                            ReadsPassed(w)[k] = a})
        /\ \A x, y \in Indexed :
               x # y => IndexOf(x[1], x[2]) # IndexOf(y[1], y[2])
        /\ {IndexOf(x[1], x[2]) : x \in Indexed} = Range(indexing.returned)

\* a thread waits for the mutex while the other is inside get(), after an
\* index was returned
C14_Witness ==
    /\ pc = "process_locus"
    /\ indexing.returned # <<>>
    /\ \E w, o \in Workers :
          /\ indexing.locus[w].st = "store"
          /\ indexing.locus[o].st = "get"
          /\ indexing.locus[o].frag_idx # <<>>

(***************************************************************************)
(* Properties of sam_scan (checked under SpecScan)                         *)
(***************************************************************************)
Mapped(b) == ~b.unmapped /\ b.tid >= 0

\* the number of the last mapped alignment before alignment k, or 0
PreviousMapped(rs, k) ==
    IF \E m \in 1 .. (k - 1) : Mapped(rs[m])
    THEN CHOOSE m \in 1 .. (k - 1) :
            Mapped(rs[m]) /\ \A n \in (m + 1) .. (k - 1) : ~Mapped(rs[n])
    ELSE 0

\* alignment k is mapped and (tid, pos) is smaller than that of the previous
\* mapped alignment
OutOfOrder(rs, k) ==
    /\ Mapped(rs[k])
    /\ PreviousMapped(rs, k) # 0
    /\ LET m == rs[PreviousMapped(rs, k)]
       IN  rs[k].tid < m.tid \/ (rs[k].tid = m.tid /\ rs[k].pos < m.pos)

AddedReads == UNION {Range(scan.added[j]) : j \in DOMAIN scan.added}

\* C12: the scan is aborted exactly when a mapped alignment is out of order
\* against the previous mapped alignment; it is aborted at that alignment,
\* so neither it nor a later alignment is added to an interval; an unmapped
\* alignment is never added and never takes part in the order check
C12_UnsortedStreamAborts ==
    pc \in {"sam_scan", "scanned"} =>
        /\ scan.st = "aborted" <=>
               \E k \in DOMAIN scan.reads : OutOfOrder(scan.reads, k)
        /\ \A k \in DOMAIN scan.reads :
               OutOfOrder(scan.reads, k) =>
                   /\ k = Len(scan.reads)
                   /\ \A n \in AddedReads : n < k
        /\ \A n \in AddedReads : Mapped(scan.reads[n])

\* an alignment was added, an unmapped alignment with a smaller position
\* followed, and the scan was aborted at a later mapped alignment
C12_Witness ==
    /\ pc = "sam_scan"
    /\ scan.st = "aborted"
    /\ AddedReads # {}
    /\ \E k \in DOMAIN scan.reads :
          /\ scan.reads[k].unmapped
          /\ scan.reads[k].tid >= 0
          /\ k > 1
          /\ Mapped(scan.reads[k - 1])
          /\ Unsorted(scan.reads[k], scan.reads[k - 1].tid, scan.reads[k - 1].pos)
          /\ k < Len(scan.reads)

(***************************************************************************)
(* Fragment counts (checked under SpecCtor).                               *)
(***************************************************************************)
\* the fragments whose column is now column k - 1 of component c
FragmentsAt(c, k) == {o \in observed : (component_frag[c + 1] + k - 1) \in o.col}

\* C21: after construction, every element of frag_counts is the number of
\* times the fragment of that column was seen: 1 for a fragment seen once,
\* the recorded count otherwise; the count of a fragment whose index was
\* removed by compaction reaches no column.
C21_FragCountsAreTimesSeen ==
    (pc = "constructed" /\ pushed # <<>>) =>
        \A c \in DOMAIN frag_counts : \A k \in DOMAIN frag_counts[c] :
            /\ \A o \in FragmentsAt(c, k) : frag_counts[c][k] = o.count
            /\ FragmentsAt(c, k) = {} => frag_counts[c][k] = 1

(***************************************************************************)
(* Sparse accesses to the arrays of a component (checked under SpecCtor).  *)
(***************************************************************************)
\* the elements ys[idx[k] - off] that asxpy(ys, rows[t], c, idxs[t], off,
\* rowlens[t]) reads and writes for off = component_frag[component of t]
AccessedOffsets(t) ==
    {weight_matrix.idxs[t][k] - component_frag[transcript_component[t] + 1] :
        k \in 1 .. weight_matrix.rowlens[t]}

\* C22: after the constructor every column stored in the row of a
\* transcript t lies in [component_frag[c], component_frag[c+1]) for c the
\* component of t, so each sparse access made for t addresses an element
\* of the frag_probs, frag_probs_prop and frag_counts array of c.
C22_RowColumnsInsideComponent ==
    pc = "constructed" =>
        \A t \in Rows :
            LET c == transcript_component[t]
            IN  /\ \A k \in 1 .. weight_matrix.rowlens[t] :
                      /\ component_frag[c + 1] <= weight_matrix.idxs[t][k]
                      /\ weight_matrix.idxs[t][k] < component_frag[c + 2]
                /\ AccessedOffsets(t) \subseteq 0 .. (Len(frag_probs[c]) - 1)
                /\ AccessedOffsets(t) \subseteq 0 .. (Len(frag_probs_prop[c]) - 1)
                /\ AccessedOffsets(t) \subseteq 0 .. (Len(frag_counts[c]) - 1)

\* a transcript of a later component whose row stores a column, in a matrix
\* whose columns were not pushed in the order of the components
C22_Witness ==
    /\ pc = "constructed"
    /\ \E t \in Rows :
          /\ component_frag[transcript_component[t] + 1] > 0
          /\ weight_matrix.rowlens[t] > 0
    /\ \E k \in DOMAIN idxmap : idxmap[k] # k - 1

(***************************************************************************)
(* run_inter_transcript (checked under Spec).                              *)
(***************************************************************************)
\* the step of worker w is a call of run_inter_transcript
InterStep(w) == mcmc_threads[w].st = "pairs" /\ mcmc_threads'[w] # mcmc_threads[w]

\* the component and the pair (u, v) of the next call of worker w
PairComponent(w) == ComponentAt(mcmc_threads[w])

PairU(w) == component_transcripts[PairComponent(w)][mcmc_threads[w].k + 1]

PairV(w) == component_transcripts[PairComponent(w)][mcmc_threads[w].k + 2]

\* z = tmix[u] + tmix[v] before the call
PairMass(w) == tmix[PairU(w)] + tmix[PairV(w)]

\* the call changes tmix at u and v only and frag_probs at their component only
PairFrame(w) ==
    /\ \A t \in DOMAIN tmix : t \notin {PairU(w), PairV(w)} => tmix'[t] = tmix[t]
    /\ \A c \in DOMAIN frag_probs : c # PairComponent(w) => frag_probs'[c] = frag_probs[c]

PairKeepsMass(w) ==
    (InterStep(w) /\ PairMass(w) >= zero_eps) =>
        /\ tmix'[PairU(w)] + tmix'[PairV(w)] = PairMass(w)
        /\ tmix'[PairU(w)] \in 0 .. PairMass(w)
        /\ tmix'[PairV(w)] \in 0 .. PairMass(w)
        /\ PairFrame(w)

PairKeepsMassUpToRounding(w) ==
    (InterStep(w) /\ PairMass(w) >= zero_eps) =>
        /\ Abs(tmix'[PairU(w)] + tmix'[PairV(w)] - PairMass(w)) <= Ulp(PairMass(w))
        /\ tmix'[PairU(w)] \in 0 .. Float(PairMass(w))
        /\ tmix'[PairV(w)] \in 0 .. Float(PairMass(w))
        /\ PairFrame(w)

\* C23 (as stated): a call of run_inter_transcript(u, v) with combined mass
\* z = tmix[u] + tmix[v] at or above zero_eps leaves tmix[u] + tmix[v] equal
\* to z and both values in [0, z], and changes no other tmix entry and no
\* frag_probs array but that of the component of u and v.
C23_PairUpdateKeepsMass == [][\A w \in Workers : PairKeepsMass(w)]_vars

\* C23 (amended): the call leaves tmix[u] + tmix[v] within one float spacing
\* of z, the two float products being rounded, and both values between 0
\* and the float nearest to z; it changes no other tmix entry and no
\* frag_probs array but that of the component of u and v.
C23_PairUpdateKeepsMassUpToRounding ==
    [][\A w \in Workers : PairKeepsMassUpToRounding(w)]_vars

\* a call with mass above zero_eps has been made on a component and has
\* moved the sum of its two tmix
C23_Witness ==
    /\ InMcmc
    /\ \E c \in Components :
          /\ hist.slack[c] > 0
          /\ component_num_transcripts[c] = 2
          /\ SumTmix(c) # Unit
          /\ \E w \in Workers : mcmc_threads[w].st = "component"

(***************************************************************************)
(* The numeric edge cases of run_inter_transcript (checked under SpecMcmc) *)
(***************************************************************************)
PairSkipped(w) ==
    (InterStep(w) /\ PairMass(w) < zero_eps) =>
        /\ tmix' = tmix
        /\ frag_probs' = frag_probs
        /\ frag_probs_prop' = frag_probs_prop
        /\ hist'.inter.u = PairU(w) /\ hist'.inter.v = PairV(w)
        /\ \A k \in DOMAIN hist'.inter.calls :
              hist'.inter.calls[k] \notin {"uniform", "divide"}

\* C24: a call of run_inter_transcript(u, v) with tmix[u] + tmix[v] below
\* zero_eps returns without any update: tmix, frag_probs and frag_probs_prop
\* are unchanged, no random number is drawn and nothing is divided by the
\* combined mass.
C24_SkippedPairIsUntouched == [][\A w \in Workers : PairSkipped(w)]_vars

\* the last step was a call on two transcripts of no mass, in a component
\* of three
C24_Witness ==
    /\ hist.inter.u # NULL
    /\ tmix[hist.inter.u] + tmix[hist.inter.v] < zero_eps
    /\ hist.inter.calls = <<>>
    /\ component_num_transcripts[transcript_component[hist.inter.u]] = 3

\* the positions of the call x in the calls of the last run_inter_transcript
CallsOf(h, x) == {k \in DOMAIN h.inter.calls : h.inter.calls[k] = x}

\* the update of the pair of worker w with the split zn / ZGrid
PairUpdatedWith(w, zn) ==
    LET p == ProposedTmix(tmix, PairU(w), PairV(w), zn)
    IN  /\ tmix' = UpdatedTmix(tmix, PairU(w), PairV(w), p)
        /\ frag_probs'[PairComponent(w)] =
              MovedProbs(frag_probs[PairComponent(w)], weight_matrix, component_frag,
                         PairComponent(w), PairU(w), PairV(w),
                         Deltas(tmix, PairU(w), PairV(w), p))

SliceFallback(w) ==
    (InterStep(w) /\ PairMass(w) >= zero_eps) =>
        /\ pc' # "fault"
        /\ Len(hist'.inter.calls) > 0
        /\ hist'.inter.calls[Len(hist'.inter.calls)] = "uniform"
        /\ IF hist'.inter.finite
           THEN /\ Cardinality(CallsOf(hist', "search_left")) = 1
                /\ Cardinality(CallsOf(hist', "search_right")) = 1
                /\ \A k \in CallsOf(hist', "search_left") \cup CallsOf(hist', "search_right") :
                      k < Len(hist'.inter.calls)
                /\ \E zn \in SliceDraws : PairUpdatedWith(w, zn)
           ELSE /\ CallsOf(hist', "search_left") = {}
                /\ CallsOf(hist', "search_right") = {}
                /\ \E zn \in UniformDraws : PairUpdatedWith(w, zn)

\* C25: when the slice height of a call of run_inter_transcript is not
\* finite, the new split is drawn uniformly from [0, 1) without a search for
\* either boundary, and the update is applied as usual, without an error;
\* when it is finite, the left and the right boundary search both run
\* before the draw.
C25_NonFiniteSliceFallsBackToUniform == [][\A w \in Workers : SliceFallback(w)]_vars

\* the last step was a call whose slice height was not finite and that moved
\* mass from one transcript to the other
C25_Witness ==
    /\ hist.inter.u # NULL
    /\ ~hist.inter.finite
    /\ hist.inter.calls = <<"uniform", "divide", "uniform">>
    /\ tmix[hist.inter.u] = 0
    /\ tmix[hist.inter.v] > 0

(***************************************************************************)
(* run_intra_component (checked under SpecMcmc).  A pairwise update is a   *)
(* call of run_inter_transcript.                                           *)
(***************************************************************************)
\* a worker is inside the loop of run_intra_component(c)
InPairs(c) ==
    \E w \in Workers :
        mcmc_threads[w].st = "pairs" /\ ComponentAt(mcmc_threads[w]) = c

ConsecutivePairs(list) == [i \in 1 .. (Len(list) - 1) |-> <<list[i], list[i + 1]>>]

IsPrefix(a, b) == Len(a) <= Len(b) /\ \A k \in DOMAIN a : a[k] = b[k]

PairwiseUpdates(c) ==
    LET n == component_num_transcripts[c]
        list == component_transcripts[c]
    IN  /\ hist.intra[c] <= 1
        /\ hist.intra[c] = 0 => hist.pairs[c] = <<>>
        /\ n <= 1 => hist.shuffles[c] = 0 /\ hist.pairs[c] = <<>>
        /\ n >= 2 =>
              /\ hist.shuffles[c] = hist.intra[c]
              /\ IsPrefix(hist.pairs[c], ConsecutivePairs(list))
              /\ (hist.intra[c] = 1 /\ ~InPairs(c)) =>
                    /\ Len(hist.pairs[c]) = n - 1
                    /\ \A t \in Range(list) :
                          \E k \in DOMAIN hist.pairs[c] :
                              t \in {hist.pairs[c][k][1], hist.pairs[c][k][2]}

\* the list of a component of at most one transcript stays as it is
ShortListKept ==
    \A c \in DOMAIN component_transcripts :
        (InMcmc /\ component_num_transcripts[c] <= 1)
            => component_transcripts'[c] = component_transcripts[c]

\* C26: in a round, the transcript list of a component of n >= 2
\* transcripts is shuffled and exactly n - 1 pairwise updates are made, on
\* the consecutive pairs (list[i], list[i+1]) of the shuffled order, so that
\* every transcript of the component takes part in one at least; a
\* component of at most one transcript gets no pairwise update and its list
\* is not shuffled.
C26_PairwiseUpdatesOnConsecutivePairs ==
    /\ [](InMcmc => \A c \in Components : PairwiseUpdates(c))
    /\ []((InMcmc /\ \A w \in Workers : mcmc_threads[w].st = "returned")
            => \A c \in Components : hist.intra[c] = 1)
    /\ [][ShortListKept]_vars

\* the threads have returned; a component of three transcripts was shuffled
\* into another order and got its two pairwise updates
C26_Witness ==
    /\ InMcmc
    /\ \A w \in Workers : mcmc_threads[w].st = "returned"
    /\ \E c \in Components :
          /\ component_num_transcripts[c] = 3
          /\ component_transcripts[c] = <<2, 0, 1>>
          /\ hist.pairs[c] = << <<2, 0>>, <<0, 1>> >>

(***************************************************************************)
(* The component mixture draw (checked under Spec).                        *)
(***************************************************************************)
\* the shape the draw of cmix[c] has with the counts as they are now
ShapeOf(c) == SumSeq(frag_counts[c]) + component_num_transcripts[c] * tmix_prior_prec

DrawnWithShape ==
    /\ InMcmc =>
          \A c \in Components :
              /\ hist.draws[c] <= 1
              /\ hist.draws[c] = 1 => hist.shape[c] = ShapeOf(c)
    /\ pc = "normalize" =>
          \A c \in Components : hist.draws[c] = 1 /\ hist.shape[c] = ShapeOf(c)

\* a step of a round that changes cmix is the draw of one component by an
\* MCMC thread, or the normalization once every component has been drawn
CmixStep ==
    /\ (InMcmc /\ cmix' # cmix) =>
          \E c \in Components :
              /\ hist.draws[c] = 0 /\ hist'.draws[c] = 1
              /\ \A o \in Components \ {c} : cmix'[o] = cmix[o]
    /\ (pc = "normalize" /\ cmix' # cmix) =>
          \A c \in Components : hist.draws[c] = 1
    /\ (InMultiread \/ pc \in {"frag_count_sums", "shuffle"}) => cmix' = cmix

\* C27: in every round cmix[c] of every component c is drawn with shape
\* frag_count_sums[c] + component_num_transcripts[c] * tmix_prior_prec, where
\* frag_count_sums[c] is the sum of frag_counts[c] as the multiread
\* resolution of this round left it, and cmix is normalized only after
\* every component has been drawn.
C27_CmixDrawnFromCountsOfTheRound == []DrawnWithShape /\ [][CmixStep]_vars

\* the second round is at its normalization, and the multiread resolution
\* left a component that holds a fragment without a count
C27_Witness ==
    /\ pc = "normalize"
    /\ sample_num >= 1
    /\ \E c \in Components :
          /\ Len(frag_counts[c]) > 0
          /\ frag_count_sums[c] = 0
          /\ hist.shape[c] = component_num_transcripts[c] * tmix_prior_prec

(***************************************************************************)
(* C28: in every round the blocks pushed to the multiread queue are        *)
(* non-empty ranges [u, v) of at most 100 multireads, the first begins at  *)
(* 0, each begins where the one before it ends and the last ends at        *)
(* num_multireads, so that they are pairwise disjoint and cover            *)
(* [0, num_multireads); no block is pushed when there is no multiread; a   *)
(* thread returns only on the end-of-queue value; every multiread is       *)
(* resolved at most once while the round runs, and exactly once when the   *)
(* threads have been joined.                                               *)
(***************************************************************************)
Multireads == 0 .. (num_multireads - 1)

BlockPushesDone == pc \in {"multiread_sentinels", "multiread_join", "frag_count_sums"}

BlocksAreConsecutiveRanges ==
    \A k \in 1 .. Len(hist.pushed) :
        LET block == hist.pushed[k]
        IN  /\ block.u < block.v
            /\ block.v - block.u <= MultireadBlockSize
            /\ block.v <= num_multireads
            /\ block.u # INT_MAX
            /\ block.u = IF k = 1 THEN 0 ELSE hist.pushed[k - 1].v

BlocksCoverMultireads ==
    IF num_multireads = 0 THEN hist.pushed = <<>>
    ELSE /\ hist.pushed # <<>>
         /\ hist.pushed[Len(hist.pushed)].v = num_multireads

ReturnedOnEndOfQueue ==
    \A w \in Workers :
        multiread_threads[w].st = "returned" => multiread_threads[w].item = EndMultireadBlock

C28_BlocksPartitionMultireads ==
    hist.phase = "multiread" =>
        /\ BlocksAreConsecutiveRanges
        /\ BlockPushesDone => BlocksCoverMultireads
        /\ ReturnedOnEndOfQueue
        /\ \A j \in Multireads : Len(hist.resolved[j]) <= 1
        /\ hist.returned => \A j \in Multireads : Len(hist.resolved[j]) = 1

\* the round of MaxBlocks blocks is over and both threads resolved multireads
C28_Witness ==
    /\ hist.phase = "multiread"
    /\ hist.returned
    /\ Len(hist.pushed) = MaxBlocks
    /\ hist.pushed[MaxBlocks].v - hist.pushed[MaxBlocks].u < MultireadBlockSize
    /\ \E j, k \in Multireads : hist.resolved[j] # hist.resolved[k]

(***************************************************************************)
(* The alignments given to the intervals (checked under SpecScan)          *)
(***************************************************************************)
ScanRuns == pc \in {"sam_scan", "scanned"} /\ scan.st \notin {"aborted", "no_sequence"}

\* samread has returned no record: the stream has been read to its end
ScanEnded == scan.st \in {"finish", "returned"}

AlignmentEnd(b) == b.pos + b.span

\* start position >= interval start and alignment end <= interval end
EndsInside(b, iv) ==
    Mapped(b) /\ b.tid = iv.tid /\ b.pos >= iv.min_start /\ AlignmentEnd(b) <= iv.max_end

\* and the start position is a position of the interval
StartsAndEndsInside(b, iv) == EndsInside(b, iv) /\ b.pos <= iv.max_end

Increasing(seq) == \A m, n \in DOMAIN seq : m < n => seq[m] < seq[n]

ReadsEndingInside(j) ==
    {k \in DOMAIN scan.reads : EndsInside(scan.reads[k], ScanIntervals[j])}

ReadsInside(j) ==
    {k \in DOMAIN scan.reads : StartsAndEndsInside(scan.reads[k], ScanIntervals[j])}

\* interval j got alignments of the set only, each once and in stream order,
\* all of them when the stream has ended, and none of the set came after j
\* was handed over
GivenExactly(j, inside) ==
    /\ Increasing(scan.added[j])
    /\ Range(scan.added[j]) \subseteq inside
    /\ ScanEnded => Range(scan.added[j]) = inside
    /\ \A h \in Range(scan.handed[j]) : \A k \in inside : k <= h

\* C29 as stated: for a sorted stream each interval is given exactly the
\* mapped alignments on its sequence with start position >= interval start
\* and alignment end <= interval end, each once and in stream order, and no
\* interval is handed over while a later alignment could be one of them
C29_IntervalGetsAlignmentsEndingInside ==
    ScanRuns => \A j \in DOMAIN ScanIntervals : GivenExactly(j, ReadsEndingInside(j))

\* C29: for a sorted stream each interval is given exactly the mapped
\* alignments on its sequence with interval start <= start position <=
\* interval end and alignment end <= interval end, each once and in stream
\* order, and no interval is handed over while a later alignment could be
\* one of them
C29_IntervalGetsAlignmentsInside ==
    ScanRuns => \A j \in DOMAIN ScanIntervals : GivenExactly(j, ReadsInside(j))

\* the scan has returned, an interval was given two alignments, and an
\* alignment that covers no position begins right after the end of an
\* interval of its sequence
C29_Witness ==
    /\ pc = "scanned"
    /\ \E j \in DOMAIN ScanIntervals : Len(scan.added[j]) = 2
    /\ \E j \in DOMAIN ScanIntervals : \E k \in DOMAIN scan.reads :
          /\ EndsInside(scan.reads[k], ScanIntervals[j])
          /\ scan.reads[k].pos = ScanIntervals[j].max_end + 1

(***************************************************************************)
(* The hand-over of the intervals (checked under SpecScan)                 *)
(***************************************************************************)
HandedOver == {j \in DOMAIN scan.handed : scan.handed[j] # <<>>}

\* finish() was called at most once for every interval, for the intervals
\* before j0 and no other, and for all of them when sam_scan has returned
HandedOverOnce ==
    /\ \A j \in DOMAIN scan.handed : Len(scan.handed[j]) <= 1
    /\ HandedOver = 1 .. scan.j0
    /\ scan.st = "returned" => HandedOver = DOMAIN ScanIntervals

\* a step of the scanner reads no field of an interval that was handed over
\* and adds no alignment to it
HandedOverIsLeftAlone ==
    scan' # scan =>
        \A j \in HandedOver :
            /\ (j - 1) \notin scan'.touched
            /\ scan'.added[j] = scan.added[j]
            /\ scan'.seq[j] = scan.seq[j]
            /\ scan'.handed[j] = scan.handed[j]

\* C30: the scanner hands every interval to the work queue exactly once,
\* also one without an alignment and one whose sequence is not in the
\* header, and after that it neither adds an alignment to the interval nor
\* reads a field of it
C30_HandedOverOnceAndLeftAlone ==
    /\ [](pc \in {"sam_scan", "scanned"} => HandedOverOnce)
    /\ [][HandedOverIsLeftAlone]_vars

\* the scan has returned; the interval without a sequence and an interval of
\* sequence 0 were handed over without an alignment before the last
\* alignment was read, and that alignment was added to a later interval
C30_Witness ==
    /\ pc = "scanned"
    /\ ScanIntervals[1].tid = -1 /\ scan.added[1] = <<>>
    /\ \E i, j \in DOMAIN ScanIntervals :
          /\ i < j
          /\ scan.added[i] = <<>>
          /\ scan.handed[1][1] < Len(scan.reads)
          /\ scan.handed[i][1] < Len(scan.reads)
          /\ Len(scan.reads) \in Range(scan.added[j])

(***************************************************************************)
(* The reference sequence of an interval (checked under SpecScan)          *)
(***************************************************************************)
\* a mapped alignment on the reference sequence of interval j has been read
HasMappedAlignment(j) ==
    \E k \in DOMAIN scan.reads :
        Mapped(scan.reads[k]) /\ scan.reads[k].tid = ScanIntervals[j].tid

\* C31: with a reference FASTA file, every interval handed to the work queue
\* whose reference sequence has a mapped alignment carries the sequence of
\* that reference (seq is not changed after the hand-over)
C31_HandedOverWithSequence ==
    ScanRuns /\ scan.fa_f =>
        \A j \in HandedOver :
            HasMappedAlignment(j) => scan.seq[j] = ScanIntervals[j].tid

(***************************************************************************)
(* process_locus: the fragment indexes, the counts and the multireads      *)
(***************************************************************************)
LocusDone == pc = "process_locus" /\ locus.st = "done"

\* the reads of the locus the read loop counts
CountedReads ==
    {k \in DOMAIN locus.rs :
        /\ ~locus.rs[k].blacklisted
        /\ locus.rs[k].multiread_num < 0
        /\ locus.rs[k].frag # NULL}

CompatibleWithSome(a) == \E k \in DOMAIN LocusTranscripts : frag_len(a, LocusTranscripts[k]) >= 0

CountedFrags == {a \in {locus.rs[k].frag : k \in CountedReads} : CompatibleWithSome(a)}

ReadsWith(a) == {k \in CountedReads : locus.rs[k].frag = a}

IndexesOfFrags == {locus.frag_idx[a].first : a \in DOMAIN locus.frag_idx}

IndexesOfMultireads == {multiread_frags[k][2] : k \in DOMAIN multiread_frags}

\* C32: when process_locus is through, every distinct fragment of the reads
\* that are neither blacklisted nor multireads and that is compatible with a
\* transcript of the locus has one fragment index of its own and the number
\* of reads with its signature as its multiplicity; the shared count table
\* holds one entry for exactly the fragments with a multiplicity above 1;
\* no other fragment has an index and no matrix entry is at another column.
C32_OneIndexPerSignature ==
    LocusDone =>
        /\ DOMAIN locus.frag_idx = CountedFrags
        /\ \A a \in CountedFrags :
              locus.frag_idx[a].second = Cardinality(ReadsWith(a))
        /\ \A a, b \in CountedFrags :
              a # b => locus.frag_idx[a].first # locus.frag_idx[b].first
        /\ IndexesOfFrags = locus.first .. (locus.first + Cardinality(CountedFrags) - 1)
        /\ Range(nz_frag_counts) =
              {<<locus.frag_idx[a].first, Cardinality(ReadsWith(a))>> :
                  a \in {b \in CountedFrags : Cardinality(ReadsWith(b)) > 1}}
        /\ Len(nz_frag_counts) =
              Cardinality({b \in CountedFrags : Cardinality(ReadsWith(b)) > 1})
        /\ \A k \in DOMAIN pushed :
              pushed[k][2] \in IndexesOfFrags \cup IndexesOfMultireads

\* two reads of one compatible fragment, a fragment seen once, and a
\* blacklisted read whose fragment gets no index
C32_Witness ==
    /\ LocusDone
    /\ \E a \in CountedFrags : Cardinality(ReadsWith(a)) = 2
    /\ \E k \in DOMAIN locus.rs :
          /\ locus.rs[k].blacklisted
          /\ locus.rs[k].frag # NULL
          /\ CompatibleWithSome(locus.rs[k].frag)
          /\ locus.rs[k].frag \notin DOMAIN locus.frag_idx
    /\ Len(nz_frag_counts) = 1
    /\ pushed # <<>>

\* the multireads of the locus with a positive weight in some transcript
WeightedMultireads ==
    {k \in DOMAIN locus.rs :
        /\ ~locus.rs[k].blacklisted
        /\ locus.rs[k].multiread_num >= 0
        /\ locus.rs[k].frag # NULL
        /\ \E t \in Range(LocusTranscripts) : locus.fw[t][locus.rs[k].frag] > 0}

\* C33: when process_locus is through, every multiread of the locus with a
\* positive aggregate weight has exactly one entry in the shared multiread
\* table, with a fragment index allocated after those of the fragments, and
\* one weight-matrix entry in every transcript whose summed weight is above
\* min_frag_weight.
C33_OneIndexPerMultiread ==
    LocusDone =>
        \A k \in WeightedMultireads :
            /\ Cardinality({m \in DOMAIN multiread_frags :
                               multiread_frags[m][1] = locus.rs[k].multiread_num}) = 1
            /\ \A m \in DOMAIN multiread_frags :
                  multiread_frags[m][1] = locus.rs[k].multiread_num =>
                      /\ multiread_frags[m][2] \notin IndexesOfFrags
                      /\ multiread_frags[m][2] < locus.next
                      /\ \A t \in Range(LocusTranscripts) :
                            locus.fw[t][locus.rs[k].frag] > min_frag_weight =>
                                \E p \in DOMAIN pushed :
                                    /\ pushed[p][1] = t
                                    /\ pushed[p][2] = multiread_frags[m][2]

(***************************************************************************)
(* transcript_sequence_bias: what the arrays hold for the transcript       *)
(***************************************************************************)
\* the bias of mate m at position pos of strand s of transcript t, in the
\* coordinates of the transcript: 1.0 without a bias model or a sequence
BiasOf(m, s, pos) ==
    IF locus.sb.null \/ ~locus.seq THEN 1
    ELSE IF s = 0 THEN locus.sb.bias[<<m, locus.t, 0, pos>>]
    ELSE locus.sb.bias[<<m, locus.t, 1, exonic_length(locus.t) - 1 - pos>>]

\* C34: after transcript_sequence_bias(locus, t), at every position below
\* the exonic length of t and on both strands, mate1_seqbias holds the
\* mate-1 bias of t and mate2_seqbias the mate-2 bias of t.
C34_BiasOfThisTranscript ==
    pc = "transcript_sequence_bias" /\ locus.t # NULL =>
        \A s \in 0 .. 1, pos \in 0 .. exonic_length(locus.t) - 1 :
            /\ locus.mate1_seqbias[s + 1][pos + 1] = BiasOf(1, s, pos)
            /\ locus.mate2_seqbias[s + 1][pos + 1] = BiasOf(2, s, pos)

(***************************************************************************)
(* sortrow: the rows after compact() and reorder_columns                   *)
(***************************************************************************)
RowIsSorted(i) ==
    \A k \in 1 .. (Len(weight_matrix.idxs[i]) - 1) :
        weight_matrix.idxs[i][k] <= weight_matrix.idxs[i][k + 1]

\* the weights of row 0 are those pushed, each once, and each stands at the
\* column its entry was pushed at, taken through the maps applied so far
RowIsPaired ==
    /\ Len(weight_matrix.rows[0]) = Len(pushed)
    /\ Len(weight_matrix.idxs[0]) = Len(pushed)
    /\ Range(weight_matrix.rows[0]) = 1 .. Len(pushed)
    /\ \A k \in DOMAIN weight_matrix.rows[0] :
          weight_matrix.idxs[0][k] = idxmap[pushed[weight_matrix.rows[0][k]][2] + 1]

\* C35: after compact() and after every reorder_columns(map), the column
\* indices of every row are non-decreasing and every weight is still next
\* to its own (mapped) column index, for rows below and above the cutoff of
\* the insertion sort and with repeated column indices.
C35_RowsSortedAndPaired ==
    pc \in {"sort_compacted", "sort_reordered", "sort_reordered_again"} =>
        /\ \A i \in 0 .. (weight_matrix.nrow - 1) : RowIsSorted(i)
        /\ RowIsPaired

\* a row above the cutoff, pushed out of order, with a repeated column and
\* more than one column after a map that is not the identity
C35_Witness ==
    /\ pc = "sort_reordered"
    /\ Len(pushed) > insert_sort_cutoff
    /\ \E k \in 1 .. (Len(pushed) - 1) : pushed[k][2] > pushed[k + 1][2]
    /\ Cardinality(Range(weight_matrix.idxs[0])) = 2
    /\ \E c \in DOMAIN idxmap : idxmap[c] # c - 1
    /\ \E k \in 1 .. (Len(pushed) - 1) : weight_matrix.rows[0][k] > weight_matrix.rows[0][k + 1]

(***************************************************************************)
(* transcript_slice_sample_search: the flag of the last step               *)
(***************************************************************************)
AtIterationStart ==
    /\ pc = "transcript_slice_sample_search"
    /\ search.st = "loop"
    /\ SearchContinues(search)

\* C36: at the start of an iteration of the root search the flag is true
\* exactly when the iteration before chose bisection or there was none, and
\* false when it chose the interpolation or the secant rule.
C36_FlagTellsBisection ==
    AtIterationStart => (search.mflag <=> search.step \in {"none", "bisection"})

(***************************************************************************)
(* AlnCountTrie and the blacklist                                          *)
(***************************************************************************)
\* C37: after the scan the read is on the blacklist exactly when it has
\* more than max_alignments mate-1 alignments or more than max_alignments
\* mate-2 alignments, it is in the multiread index exactly when it is not
\* on the blacklist and has more than one alignment of a mate, and it is
\* never in both; while counting, each field of the word moves only with
\* the alignments of its own mate.
C37_BlacklistedIffTooMany ==
    /\ scan.st = "indexed" =>
          /\ scan.blacklist <=>
                (scan.mate1 > max_alignments \/ scan.mate2 > max_alignments)
          /\ scan.multireads <=>
                (~scan.blacklist /\ (scan.mate1 > 1 \/ scan.mate2 > 1))
          /\ ~(scan.blacklist /\ scan.multireads)
    /\ scan.st = "counting" =>
          /\ scan.val % CounterSize = scan.mate1 % CounterSize
          /\ (scan.val \div CounterSize) % CounterSize = scan.mate2 % CounterSize

FinalColumn(f) == CHOOSE c \in Cols : \E o \in observed : o.frag = f /\ c \in o.col

\* the component and the offset of the frag_probs / frag_counts element of f
ElementOf(f) ==
    LET c == ds[FinalColumn(f) + 1]
    IN  <<c, FinalColumn(f) - component_frag[c + 1]>>

====
